---- MODULE Spec2Model ----
(***************************************************************************)
(* A model of zigster: the per-sensor history ring buffer (history.go),    *)
(* the history store, and the chart renderers (chart.go).                  *)
(*                                                                         *)
(* Representation.                                                         *)
(*   - A temperature (Go float64) is written by a whole number of tenths   *)
(*     of a degree: 999 is the float64 nearest to 99.9. Temperatures are   *)
(*     compared as these numbers of tenths. What the source computes from  *)
(*     them in float64 (the sum and the quotient of Avg, (v-min)/span*7,   *)
(*     (width-1)*(x-min)/span) is computed in float64 here, each operation *)
(*     rounded as the hardware rounds it.                                  *)
(*   - A time.Time is the number of whole seconds since Go's zero time;    *)
(*     the zero time.Time is 0. An instant with a fraction of a second is  *)
(*     the record [sec, nsec] of its whole seconds and its nanoseconds,    *)
(*     1 .. 999999999. A time.Duration is written the same way. The        *)
(*     Location of every Time is time.Local, the variable zone; the        *)
(*     wall clock of a Time (Second, Minute, Hour, Format) is read in it.  *)
(*   - A Go slice is a sequence; a nil slice is the empty sequence.        *)
(***************************************************************************)
EXTENDS Integers, Sequences, FiniteSets, TLC

VARIABLES
    h,         \* one History (ring buffer) under test
    pushedH,   \* ghost: every point ever pushed into h, in push order
    Data,      \* HistoryStore.Data: key -> History, for the keys present
    Capacity,  \* HistoryStore.Capacity
    pushed,    \* ghost: per key, every point ever recorded, in order
    ret,       \* the last call made and what it returned
    args,      \* the arguments of a call to a pure chart function
    out,       \* the result of that call, once made
    vm,        \* viewer.model: the history viewer's fields
    dayRows,   \* per listed day, what store.LoadDay returns for it
    mon,       \* monitor.Model: the live monitor's fields
    timers,    \* the tick timers armed and not yet fired
    polls,     \* the pollSensors commands running or waiting for delivery
    now,       \* the wall clock
    ds,        \* store.DiskStore: curDate and whether a file is open
    files,     \* the data directory: date -> records of the day's file
    zone,      \* the machine's time zone, time.Local
    writes,    \* ghost: every DiskStore.Write made, in order
    issued,    \* the number of pollSensors commands issued so far
    ticksDone, \* ghost: the number of tick messages processed so far
    host       \* the host's event loop: "running", "quitting" once Update has
               \* returned tea.Quit, "ended" once the quit message is received

AppVars ==
    <<vm, dayRows, mon, timers, polls, now, ds, files, zone, writes, issued, ticksDone,
      host>>
vars == <<h, pushedH, Data, Capacity, pushed, ret, args, out, AppVars>>

(***************************************************************************)
(* Bounds of the model.                                                    *)
(***************************************************************************)
MaxCap == 3        \* buffer capacities 1..MaxCap
MaxPushes == 4     \* pushes into the single buffer
MaxRecords == 3    \* Record calls on the store

Temps == {1, 310, 325}              \* 0.1, 31.0, 32.5 degrees
HistTimes == {50400, 50401}         \* 14:00:00 and 14:00:01
Keys == {"coretemp/Core 0", "amdgpu/edge"}
Ns == -1 .. (MaxCap + 1)            \* the n of LastN / LastNPoints

MaxPoints == 3     \* points handed to a renderer
MaxWidth == 3      \* widths -1..MaxWidth

\* TempColor inputs: values around the thresholds of 100.0/120.0, of
\* 100.0/80.0 (critical below high) and of 40.0/120.0
ColorValues == {0, 339, 340, 849, 850, 999, 1000, 1199, 1200, 1500}
ColorThresholds == {<<1000, 1200>>, <<1000, 800>>, <<400, 1200>>}

\* Sparkline inputs.  Times: none, 13:59:59, 14:00:00, 14:00:01, 14:01:00,
\* 15:00:01.
SparkPoints ==
    { [Temp |-> 453, Time |-> 0],
      [Temp |-> 150, Time |-> 50460],
      [Temp |-> 1000, Time |-> 0],
      [Temp |-> 1000, Time |-> 50400],
      [Temp |-> 700, Time |-> 50399],
      [Temp |-> 1200, Time |-> 50401],
      [Temp |-> 850, Time |-> 54001] }
Widths == -1 .. MaxWidth
Ranges == {<<200, 1100>>, <<300, 657>>, <<695, 695>>, <<900, 600>>}
SparkHigh == {800}
SparkCrit == {1000}
SparkValues == {150, 700, 1200}     \* the values of RenderSparkline

\* Timeline inputs: besides the short sequences over SparkPoints, runs of
\* up to MaxRun evenly spaced points from 13:59:50, 13:59:58 or 14:00:00,
\* fully stamped or with every third point unstamped.
MaxRun == 12
MaxSlots == 4      \* timeline slots of a loaded day
MaxRows == 2       \* rows of a stored day
MaxWrites == 3     \* calls of DiskStore.Write
MaxPolls == 2      \* pollSensors commands issued by the monitor
MaxTicks == 2      \* tick messages the monitor processes
MaxClock == 1      \* seconds the wall clock advances while the monitor runs
MaxScroll == 1     \* lines the monitor is scrolled down
RunStarts == {50390, 50398, 50400}
RunSteps == {1, 8, 10, 30, 60, 3600}
TimelineWidths == {-1, 0, 3, 5, 7, 12, 14}

\* Threshold scale inputs: thresholds apart, thresholds sharing a column,
\* a high threshold below the range with a critical one beyond it, and a
\* high threshold of 43.9 at the end of the range [20.0, 43.9].
ScaleCurrents == {150, 550, 1000, 1300}
ScaleRanges == {<<200, 1100>>, <<695, 695>>, <<0, 1000>>, <<200, 439>>}
ScaleThresholds == {<<800, 1000>>, <<800, 810>>, <<100, 2000>>, <<439, 1000>>}
ScaleWidths == {-1, 0, 1, 2, 5, 10, 20, 30}

(***************************************************************************)
(* General helpers.                                                        *)
(***************************************************************************)
MinInt(a, b) == IF a < b THEN a ELSE b
MaxInt(a, b) == IF a > b THEN a ELSE b

\* s[from+1 .. Len(s)], the Go slice expression s[from:]
SliceFrom(s, from) == [i \in 1 .. (Len(s) - from) |-> s[from + i]]

\* F of the value of e, e worked out once
ValueOf(e, F(_)) == CHOOSE r \in {F(v) : v \in {e}} : TRUE

(***************************************************************************)
(* float64 arithmetic. A temperature of k tenths stands for the float64    *)
(* nearest to k/10, F64(k). What the source computes from temperatures (a  *)
(* sum, a difference, a quotient) is a float64 written by its sign neg,    *)
(* its 53-bit mantissa m and its exponent e: the number m * 2^e, m in      *)
(* 2^52 .. 2^53 - 1; zero has mantissa 0 and exponent 0. Every operation   *)
(* rounds its exact result to the nearest float64, a tie to the even       *)
(* mantissa, as the hardware does. A mantissa, and any whole number below  *)
(* 2^66, is written as three limbs of 22 bits, the highest first.          *)
(* Temperatures of the model keep every result far from the largest and    *)
(* the smallest float64, so infinities and subnormals do not occur.        *)
(***************************************************************************)
Limb == 2 ^ 22

WZero == <<0, 0, 0>>
WOne == <<0, 0, 1>>

\* the limbs of the number a2 * Limb^2 + a1 * Limb + a0, carries and borrows
\* propagated
Carry(a2, a1, a0) ==
    LET t1 == a1 + (a0 \div Limb)
    IN  <<a2 + (t1 \div Limb), t1 % Limb, a0 % Limb>>

WAdd(x, y) == Carry(x[1] + y[1], x[2] + y[2], x[3] + y[3])
\* x - y, for x >= y
WSub(x, y) == Carry(x[1] - y[1], x[2] - y[2], x[3] - y[3])
\* x * k, for 0 <= k <= 512
WTimes(x, k) == Carry(x[1] * k, x[2] * k, x[3] * k)
WLess(x, y) ==
    \/ x[1] < y[1]
    \/ x[1] = y[1] /\ (x[2] < y[2] \/ (x[2] = y[2] /\ x[3] < y[3]))

\* x * 2^s, for a product below 2^66: whole limbs first, then the bits
ShlLimbs(x, n) ==
    CASE n = 0 -> x
      [] n = 1 -> <<x[2], x[3], 0>>
      [] n = 2 -> <<x[3], 0, 0>>
      [] OTHER -> WZero
ShlBits(y, up, lo) ==
    <<(y[1] % lo) * up + (y[2] \div lo), (y[2] % lo) * up + (y[3] \div lo),
      (y[3] % lo) * up>>
WShl(x, s) == ShlBits(ShlLimbs(x, s \div 22), 2 ^ (s % 22), 2 ^ (22 - (s % 22)))

\* x divided by 2^s, the fraction dropped
ShrLimbs(x, n) ==
    CASE n = 0 -> x
      [] n = 1 -> <<0, x[1], x[2]>>
      [] n = 2 -> <<0, 0, x[1]>>
      [] OTHER -> WZero
ShrBits(y, p, hi) ==
    <<y[1] \div p, (y[1] % p) * hi + (y[2] \div p), (y[2] % p) * hi + (y[3] \div p)>>
WShr(x, s) == ShrBits(ShrLimbs(x, s \div 22), 2 ^ (s % 22), 2 ^ (22 - (s % 22)))

\* whether x is a multiple of 2^s
WLowZero(x, s) == s <= 0 \/ x = WZero \/ (s < 66 /\ WShl(WShr(x, s), s) = x)

\* the number of bits of a limb and of a number
BitLen(n) == CHOOSE k \in 0 .. 22 : n < 2 ^ k /\ (k = 0 \/ n >= 2 ^ (k - 1))
WBitLen(x) ==
    IF x[1] > 0 THEN 44 + BitLen(x[1])
    ELSE IF x[2] > 0 THEN 22 + BitLen(x[2])
    ELSE BitLen(x[3])

Float64Zero == [neg |-> FALSE, m |-> WZero, e |-> 0]
FIsZero(a) == a.m = WZero

\* Rounding to the nearest float64, a tie to the even mantissa. Of w, d bits
\* are cut off; the mantissa goes up by one if what was cut off is more than
\* half a unit, or is half a unit and the mantissa is odd. inexact: the
\* number rounded is just above w * 2^e.
GoesUp(w, d, inexact) ==
    /\ WShr(w, d - 1)[3] % 2 = 1
    /\ (inexact \/ ~WLowZero(w, d - 1) \/ WShr(w, d)[3] % 2 = 1)
RoundUp(q, up) == IF up THEN WAdd(q, WOne) ELSE q
\* a mantissa that rounding took to 2^53 is 2^52 with the next exponent
Renormal(neg, r, e) ==
    IF WBitLen(r) > 53 THEN [neg |-> neg, m |-> WShr(r, 1), e |-> e + 1]
    ELSE [neg |-> neg, m |-> r, e |-> e]
RoundBits(neg, w, e, inexact, d) ==
    IF d <= 0 THEN [neg |-> neg, m |-> WShl(w, -d), e |-> e + d]
    ELSE Renormal(neg, RoundUp(WShr(w, d), GoesUp(w, d, inexact)), e + d)

\* the float64 nearest to w * 2^e, or to a number just above it (inexact)
RoundValue(neg, w, e, inexact) ==
    IF w = WZero THEN Float64Zero
    ELSE RoundBits(neg, w, e, inexact, WBitLen(w) - 53)

RoundTuple(t) == RoundValue(t[1], t[2], t[3], t[4])
Round64(neg, w, e, inexact) == ValueOf(<<neg, w, e, inexact>>, RoundTuple)

\* float64(n) of an int n
AbsInt(n) == IF n < 0 THEN -n ELSE n
FromInt(n) == Round64(n < 0, <<0, AbsInt(n) \div Limb, AbsInt(n) % Limb>>, 0, FALSE)

\* -a
FNeg(a) == IF FIsZero(a) THEN a ELSE [a EXCEPT !.neg = ~a.neg]

\* |a| < |b|
MagLess(a, b) ==
    IF FIsZero(b) THEN FALSE
    ELSE IF FIsZero(a) THEN TRUE
    ELSE a.e < b.e \/ (a.e = b.e /\ WLess(a.m, b.m))

\* a < b
FLess(a, b) ==
    IF a.neg # b.neg THEN a.neg
    ELSE IF a.neg THEN MagLess(b, a) ELSE MagLess(a, b)

\* big + small of two float64 that are not zero, |big| >= |small|: the
\* mantissas with three more bits, the smaller one moved down by the d bits
\* between the exponents, its last bit set if bits were lost
Sticky(s) == <<s[1], s[2], s[3] + 1 - (s[3] % 2)>>
Aligned(y, d) ==
    IF d > 56 THEN WOne
    ELSE IF WLowZero(y, d) THEN WShr(y, d)
    ELSE Sticky(WShr(y, d))
AddMantissas(same, x, y) == IF same THEN WAdd(x, y) ELSE WSub(x, y)
AddOrdered(big, small) ==
    Round64(big.neg,
            AddMantissas(big.neg = small.neg, WShl(big.m, 3),
                         Aligned(WShl(small.m, 3), big.e - small.e)),
            big.e - 3, FALSE)

\* a + b and a - b
AddValues(a, b) ==
    IF FIsZero(a) THEN b
    ELSE IF FIsZero(b) THEN a
    ELSE IF MagLess(a, b) THEN AddOrdered(b, a) ELSE AddOrdered(a, b)
AddPair(p) == AddValues(p[1], p[2])
SubPair(p) == AddValues(p[1], FNeg(p[2]))
FAdd(a, b) == ValueOf(<<a, b>>, AddPair)
FSub(a, b) == ValueOf(<<a, b>>, SubPair)

\* float64(n) * a, for an int n of 0 .. 8191
TimesValue(n, a) ==
    IF n = 0 \/ FIsZero(a) THEN Float64Zero
    ELSE Round64(a.neg, WAdd(WShl(WTimes(a.m, n \div 16), 4), WTimes(a.m, n % 16)),
                 a.e, FALSE)
TimesPair(p) == TimesValue(p[1], p[2])
FTimesInt(n, a) == ValueOf(<<n, a>>, TimesPair)

\* a / b, long division: eight more bits of the quotient st.q, st.r being
\* the remainder, below the divisor's mantissa bm. The bits are guessed from
\* the leading 20 bits of remainder and divisor, which gives them or one
\* less.
Top20(w) == w[1] * 2 ^ 11 + (w[2] \div 2 ^ 11)
DivCorrect(q, bm, guess, rest) ==
    IF WLess(rest, bm)
    THEN [r |-> rest, q |-> Carry(q[1] * 256, q[2] * 256, q[3] * 256 + guess)]
    ELSE [r |-> WSub(rest, bm),
          q |-> Carry(q[1] * 256, q[2] * 256, q[3] * 256 + guess + 1)]
DivDigit(st, bm, guess) ==
    DivCorrect(st.q, bm, guess, WSub(WTimes(st.r, 256), WTimes(bm, guess)))
DivStep(st, bm) == DivDigit(st, bm, (Top20(st.r) * 256) \div (Top20(bm) + 1))

RECURSIVE DivSteps(_, _, _)
DivSteps(st, bm, n) ==
    IF n = 0 THEN st
    ELSE ValueOf(DivStep(st, bm), LAMBDA next : DivSteps(next, bm, n - 1))

\* a / b, for b not zero
DivFirst(am, bm) ==
    IF WLess(am, bm) THEN [r |-> am, q |-> WZero]
    ELSE [r |-> WSub(am, bm), q |-> WOne]
DivValues(a, b) ==
    IF FIsZero(a) THEN Float64Zero
    ELSE ValueOf(DivSteps(DivFirst(a.m, b.m), b.m, 7),
                 LAMBDA st : Round64(a.neg # b.neg, st.q, a.e - b.e - 56,
                                     st.r # WZero))
DivPair(p) == DivValues(p[1], p[2])
FDiv(a, b) == ValueOf(<<a, b>>, DivPair)

\* int(a), the fraction dropped; the largest integer at hand beyond it
WholeOf(w) ==
    IF w[1] > 0 \/ w[2] >= 2 ^ 9 THEN 2147483647 ELSE w[2] * Limb + w[3]
Signed(neg, v) == IF neg THEN -v ELSE v
TruncValue(a) ==
    IF FIsZero(a) \/ a.e <= -53 THEN 0
    ELSE Signed(a.neg, WholeOf(IF a.e >= 0 THEN <<1, 0, 0>> ELSE WShr(a.m, -a.e)))

FTrunc(a) == ValueOf(a, TruncValue)

\* the float64 of a temperature of k tenths: the float64 nearest to k/10
F64(k) == FDiv(FromInt(k), FromInt(10))

(***************************************************************************)
(* history.go: History                                                     *)
(***************************************************************************)
\* math.MaxFloat64, the sentinel NewHistory starts Min at (and the negation
\* of which it starts Peak at); here the largest integer of the model.
MaxFloat64 == 2147483647

HistoryPoint(temp, t) == [Temp |-> temp, Time |-> t]

NewHistory(capacity) ==
    [Points |-> <<>>, Max |-> capacity, Min |-> MaxFloat64, Peak |-> -MaxFloat64]

\* Push as a plausible slip would write it: at capacity the new point
\* overwrites the newest slot without shifting the older ones out.
PushNoShift(b, temp, t) ==
    LET p == HistoryPoint(temp, t)
        n == Len(b.Points)
    IN  [b EXCEPT
            !.Points = IF n >= b.Max
                       THEN [i \in 1 .. n |-> IF i < n THEN b.Points[i] ELSE p]
                       ELSE Append(b.Points, p),
            !.Min = IF temp < b.Min THEN temp ELSE b.Min,
            !.Peak = IF temp > b.Peak THEN temp ELSE b.Peak]

\* Push as a plausible slip would write it: Min and Peak recomputed from
\* the retained window instead of accumulated over the lifetime.
PushWindowStats(b, temp, t) ==
    LET p == HistoryPoint(temp, t)
        n == Len(b.Points)
        pts == IF n >= b.Max
               THEN [i \in 1 .. n |-> IF i < n THEN b.Points[i + 1] ELSE p]
               ELSE Append(b.Points, p)
        vals == {pts[i].Temp : i \in 1 .. Len(pts)}
    IN  [b EXCEPT
            !.Points = pts,
            !.Min = CHOOSE v \in vals : \A w \in vals : v <= w,
            !.Peak = CHOOSE v \in vals : \A w \in vals : v >= w]

\* History.Push: at capacity shift every point one slot towards the front
\* (copy(h.Points, h.Points[1:])) and store the new point in the last slot,
\* otherwise append; then tighten Min and Peak.
Push(b, temp, t) ==
    LET p == HistoryPoint(temp, t)
        n == Len(b.Points)
    IN  [b EXCEPT
            !.Points = IF n >= b.Max
                       THEN [i \in 1 .. n |-> IF i < n THEN b.Points[i + 1] ELSE p]
                       ELSE Append(b.Points, p),
            !.Min = IF temp < b.Min THEN temp ELSE b.Min,
            !.Peak = IF temp > b.Peak THEN temp ELSE b.Peak]

\* History.Last
Last(b) == IF Len(b.Points) = 0 THEN 0 ELSE b.Points[Len(b.Points)].Temp

\* Avg, the loop "sum += p.Temp" over the first i points, sum starting at
\* 0.0: one float64 addition for each point, in the order of the points
RECURSIVE SumFirst(_, _)
SumFirst(pts, i) ==
    IF i = 0 THEN Float64Zero ELSE FAdd(SumFirst(pts, i - 1), F64(pts[i].Temp))
SumTemps(pts) == SumFirst(pts, Len(pts))

\* Avg as a plausible slip would write it: the sum divided by the capacity.
AvgByCapacity(b) ==
    IF Len(b.Points) = 0 THEN Float64Zero
    ELSE FDiv(SumTemps(b.Points), FromInt(b.Max))

\* History.Avg: 0 when empty, else the float64 sum of the retained
\* temperatures divided by float64(len(h.Points)).
Avg(b) ==
    IF Len(b.Points) = 0 THEN Float64Zero
    ELSE FDiv(SumTemps(b.Points), FromInt(Len(b.Points)))

\* LastNPoints as a plausible slip would write it: the first n points.
LastNPointsFromFront(b, n) ==
    IF n <= 0 \/ Len(b.Points) = 0 THEN <<>>
    ELSE SubSeq(b.Points, 1, MinInt(n, Len(b.Points)))

\* History.LastNPoints
LastNPoints(b, n) ==
    IF n <= 0 \/ Len(b.Points) = 0 THEN <<>>
    ELSE LET start == MaxInt(Len(b.Points) - n, 0)
         IN  SliceFrom(b.Points, start)

\* History.LastN
LastN(b, n) ==
    IF n <= 0 \/ Len(b.Points) = 0 THEN <<>>
    ELSE LET start == MaxInt(Len(b.Points) - n, 0)
             tail == SliceFrom(b.Points, start)
         IN  [i \in 1 .. Len(tail) |-> tail[i].Temp]

(***************************************************************************)
(* history.go: HistoryStore                                                *)
(***************************************************************************)
\* A Go pointer: nil, or a reference to a value.
Nil == [nil |-> TRUE]
Ptr(x) == [nil |-> FALSE, ref |-> x]

\* The map after s.Data[key] = b
EmptyMap == [k \in {} |-> 0]
MapPut(m, key, b) == [k \in (DOMAIN m) \cup {key} |-> IF k = key THEN b ELSE m[k]]

\* Record as a plausible slip would write it: a fresh buffer on every call.
RecordFresh(data, capacity, key, temp, t) ==
    MapPut(data, key, Push(NewHistory(capacity), temp, t))

\* HistoryStore.Record: the value of Data after the call.
Record(data, capacity, key, temp, t) ==
    LET b == IF key \in DOMAIN data THEN data[key] ELSE NewHistory(capacity)
    IN  MapPut(data, key, Push(b, temp, t))

\* HistoryStore.Get
Get(data, key) == IF key \in DOMAIN data THEN Ptr(data[key]) ELSE Nil

(***************************************************************************)
(* chart.go: colours and the sparkline                                     *)
(***************************************************************************)
\* Whether the instant t is a whole number of seconds, written as an
\* integer: an integer prints in at most 11 characters, a record in more
IsWhole(t) == Len(ToString(t)) <= 11

\* time.Time.Unix, counted from the zero time, and time.Time.Nanosecond
Unix(t) == IF IsWhole(t) THEN t ELSE t.sec
Nanosecond(t) == IF IsWhole(t) THEN 0 ELSE t.nsec

\* An instant: its second, and with it the nanoseconds if there are any
Instant(sec, nsec) == IF nsec = 0 THEN sec ELSE [sec |-> sec, nsec |-> nsec]

\* the second and the nanoseconds of an instant, and their order
Stamp(t) == <<Unix(t), Nanosecond(t)>>
StampBefore(a, b) == a[1] < b[1] \/ (a[1] = b[1] /\ a[2] < b[2])

\* time.Time.Equal and time.Time.Before; a < b of two time.Duration
SameTime(a, b) ==
    IF IsWhole(a) THEN IsWhole(b) /\ a = b
    ELSE ~IsWhole(b) /\ a.sec = b.sec /\ a.nsec = b.nsec
Before(a, b) ==
    IF IsWhole(a) /\ IsWhole(b) THEN a < b
    ELSE \/ Unix(a) < Unix(b)
         \/ Unix(a) = Unix(b) /\ Nanosecond(a) < Nanosecond(b)

\* time.Time.Sub: the duration a - b
Sub(a, b) ==
    LET sec == Unix(a) - Unix(b)
        nsec == Nanosecond(a) - Nanosecond(b)
    IN  IF nsec = 0 THEN sec
        ELSE IF nsec > 0 THEN [sec |-> sec, nsec |-> nsec]
        ELSE [sec |-> sec - 1, nsec |-> nsec + 1000000000]

\* A time.Location, a zone with one transition: offset `before` up to the
\* instant `switch`, offset `after` from it on. Wall is the wall clock of
\* an instant in the zone, in seconds.
ZoneOffset(z, u) == IF u < z.switch THEN z.before ELSE z.after
Wall(z, t) == Unix(t) + ZoneOffset(z, Unix(t))

\* no daylight saving and no offset; a zone that falls back one hour at
\* 02:00 of the second day (03:00 summer time); a zone five and a half
\* hours ahead
FixedZone == [before |-> 0, after |-> 0, switch |-> 0]
DstZone == [before |-> 7200, after |-> 3600, switch |-> 90000]
HalfHourZone == [before |-> 19800, after |-> 19800, switch |-> 0]

\* time.Time.IsZero; Second and Minute (minute of the hour) of a Time whose
\* Location is loc. Every Time the program makes is in time.Local
\* (time.Now, time.ParseInLocation with time.Local), the variable zone.
IsZero(t) == IsWhole(t) /\ t = 0
Second(loc, t) == Wall(loc, t) % 60
Minute(loc, t) == (Wall(loc, t) \div 60) % 60

\* var sparkBlocks: the eight intensity runes, lowest first
sparkBlocks ==
    <<"U+2581", "U+2582", "U+2583", "U+2584", "U+2585", "U+2586", "U+2587", "U+2588">>

\* One rune as lipgloss renders it: the rune, its foreground colour, bold.
Glyph(ch, fg, bold) == [ch |-> ch, fg |-> fg, bold |-> bold]
NoDataGlyph == Glyph("U+254C", "236", FALSE)
TickGlyph == Glyph("U+2502", "239", FALSE)

\* TempColor as a plausible slip would write it: strict comparisons, so a
\* value on a threshold falls into the lower tier.
TempColorStrict(v, high, crit, hasHigh, hasCrit) ==
    IF hasCrit /\ v > crit THEN "196"
    ELSE IF hasHigh /\ v > high THEN "208"
    ELSE IF hasHigh /\ 100 * v > 85 * high THEN "220"
    ELSE "78"

\* TempColor: the first case of the switch that matches. The float64 test
\* v >= high*0.85 gives what 100*v >= 85*high gives for all tenths v and all
\* tenths high from 0 to 200000.0 degrees (gone through one by one); where
\* the two differ, at a negative high, v >= high has matched before.
TempColor(v, high, crit, hasHigh, hasCrit) ==
    IF hasCrit /\ v >= crit THEN "196"
    ELSE IF hasHigh /\ v >= high THEN "208"
    ELSE IF hasHigh /\ 100 * v >= 85 * high THEN "220"
    ELSE "78"

\* The truncation as a plausible slip would write it: nothing is dropped.
KeepAll(points, width) == points

\* The truncation as a plausible slip would write it: the oldest width
\* points are kept.
KeepOldest(points, width) ==
    IF Len(points) > width THEN SubSeq(points, 1, width) ELSE points

\* RenderSparklinePoints, the truncation: points[len(points)-width:] when
\* there are more points than columns.
KeepRecent(points, width) ==
    IF Len(points) > width THEN SliceFrom(points, Len(points) - width) ELSE points

\* span := rangeMax - rangeMin, a float64; 1 when it is not positive
SpanValue(d) == IF FLess(Float64Zero, d) THEN d ELSE FromInt(1)
Span(rangeMin, rangeMax) == ValueOf(FSub(F64(rangeMax), F64(rangeMin)), SpanValue)

\* math.Max(0, math.Min(1, norm))
Clamp01(norm) ==
    IF FLess(FromInt(1), norm) THEN FromInt(1)
    ELSE IF FLess(norm, Float64Zero) THEN Float64Zero
    ELSE norm

\* RenderSparklinePoints, norm: (temp - rangeMin) / span, clamped into [0, 1]
Norm(temp, rangeMin, rangeMax) ==
    ValueOf(FDiv(FSub(F64(temp), F64(rangeMin)), Span(rangeMin, rangeMax)), Clamp01)

\* The quantisation as a plausible slip would write it: rounding to the
\* nearest level instead of truncating.
QuantIndexRounded(temp, rangeMin, rangeMax) ==
    FTrunc(FAdd(FTimesInt(7, Norm(temp, rangeMin, rangeMax)),
                FDiv(FromInt(1), FromInt(2))))

\* RenderSparklinePoints, the quantisation: idx = int(norm*7), capped at 7.
QuantIndex(temp, rangeMin, rangeMax) ==
    MinInt(7, FTrunc(FTimesInt(7, Norm(temp, rangeMin, rangeMax))))

\* The tick rule as a plausible slip would write it: only a change of
\* minute against the previous point makes a tick.
IsMinuteTickChangeOnly(points, i) ==
    LET p == points[i]
    IN  /\ ~IsZero(p.Time)
        /\ i > 1
        /\ ~IsZero(points[i - 1].Time)
        /\ Minute(zone, p.Time) # Minute(zone, points[i - 1].Time)

\* RenderSparklinePoints, isMinuteTick of the i-th rendered point (i from 1)
IsMinuteTick(points, i) ==
    LET p == points[i]
    IN  /\ ~IsZero(p.Time)
        /\ \/ Second(zone, p.Time) = 0
           \/ /\ i > 1
              /\ ~IsZero(points[i - 1].Time)
              /\ Minute(zone, p.Time) # Minute(zone, points[i - 1].Time)

\* RenderSparklinePoints, the glyph of a point that is not a tick
ValueGlyph(p, rangeMin, rangeMax, high, crit, hasHigh, hasCrit) ==
    Glyph(sparkBlocks[QuantIndex(p.Temp, rangeMin, rangeMax) + 1],
          TempColor(p.Temp, high, crit, hasHigh, hasCrit),
          hasCrit /\ p.Temp >= crit)

\* RenderSparklinePoints: the glyphs of the returned string, left to right.
RenderSparklinePoints(points, width, rangeMin, rangeMax, high, crit, hasHigh, hasCrit) ==
    IF width <= 0 THEN <<>>
    ELSE IF Len(points) = 0 THEN [c \in 1 .. width |-> NoDataGlyph]
    ELSE LET pts == KeepRecent(points, width)
             padLen == width - Len(pts)
         IN  [c \in 1 .. padLen |-> NoDataGlyph] \o
             [i \in 1 .. Len(pts) |->
                 IF IsMinuteTick(pts, i) THEN TickGlyph
                 ELSE ValueGlyph(pts[i], rangeMin, rangeMax, high, crit, hasHigh, hasCrit)]

\* RenderSparkline: the values as points without a timestamp.
RenderSparkline(values, width, rangeMin, rangeMax, high, crit, hasHigh, hasCrit) ==
    IF width <= 0 THEN <<>>
    ELSE RenderSparklinePoints([i \in 1 .. Len(values) |-> HistoryPoint(values[i], 0)],
                               width, rangeMin, rangeMax, high, crit, hasHigh, hasCrit)

(***************************************************************************)
(* chart.go: the timeline                                                  *)
(***************************************************************************)
\* time.Time.Hour of a Time whose Location is loc
Hour(loc, t) == (Wall(loc, t) \div 3600) % 24

Digits == <<"0", "1", "2", "3", "4", "5", "6", "7", "8", "9">>

\* p.Time.Format("15:04"): the five characters of HH:MM on the wall clock
\* of the Time's Location loc
FormatHHMM(loc, t) ==
    << Digits[(Hour(loc, t) \div 10) + 1], Digits[(Hour(loc, t) % 10) + 1], ":",
       Digits[(Minute(loc, t) \div 10) + 1], Digits[(Minute(loc, t) % 10) + 1] >>

\* The line as a plausible slip would leave it: allocated, never filled.
BlankLineUnfilled(width) == [c \in 1 .. width |-> "U+0000"]

\* RenderTimeline, the rune buffer filled with spaces
BlankLine(width) == [c \in 1 .. width |-> " "]

\* RenderTimeline, isMinuteTick of the i-th kept point (i from 1); a point
\* without a timestamp is skipped before the rule is applied.
TimelineIsTick(points, i) ==
    LET p == points[i]
    IN  /\ ~IsZero(p.Time)
        /\ \/ Second(zone, p.Time) = 0
           \/ /\ i > 1
              /\ ~IsZero(points[i - 1].Time)
              /\ Minute(zone, p.Time) # Minute(zone, points[i - 1].Time)

\* RenderTimeline, the ticks collected: column (from 0) and label, in
\* point order.
TimelineTicks(points, padLen) ==
    LET idx == [i \in 1 .. Len(points) |-> i]
        sel == SelectSeq(idx, LAMBDA i : TimelineIsTick(points, i))
    IN  [k \in 1 .. Len(sel) |->
            [pos |-> padLen + sel[k] - 1, label |-> FormatHHMM(zone, points[sel[k]].Time)]]

\* RenderTimeline, the start column of a tick's label: two columns left of
\* the tick, not below 0.
LabelStart(pos) == IF pos - 2 < 0 THEN 0 ELSE pos - 2

\* The gap test as a plausible slip would write it: nothing is too close.
TooCloseNever(start, lastEnd) == FALSE

\* RenderTimeline, the gap test against the end of the last placed label
\* (lastEnd is -1 while nothing is placed)
TooClose(start, lastEnd) == start <= lastEnd + 1

\* RenderTimeline, the placement loop over the ticks left; st holds the
\* line, lastEnd and the labels placed so far.
RECURSIVE PlaceLabels(_, _, _)
PlaceLabels(ticks, width, st) ==
    IF ticks = <<>> THEN st
    ELSE LET t == Head(ticks)
             start == LabelStart(t.pos)
             end == start + Len(t.label)
         IN  IF end > width THEN PlaceLabels(Tail(ticks), width, st)
             ELSE IF TooClose(start, st.lastEnd)
                  THEN PlaceLabels(Tail(ticks), width, st)
             ELSE PlaceLabels(Tail(ticks), width,
                     [line |-> [c \in 1 .. width |->
                                   IF start < c /\ c <= end
                                   THEN t.label[c - start] ELSE st.line[c]],
                      lastEnd |-> end,
                      placed |-> Append(st.placed,
                                    [start |-> start, end |-> end,
                                     pos |-> t.pos, label |-> t.label])])

\* RenderTimeline: the characters of the returned line, with the ticks
\* collected and the labels placed on the way.
RenderTimeline(points, width) ==
    IF Len(points) = 0 \/ width <= 0
    THEN [line |-> <<>>, ticks |-> <<>>, placed |-> <<>>]
    ELSE LET pts == KeepRecent(points, width)
             padLen == width - Len(pts)
             ticks == TimelineTicks(pts, padLen)
             st == PlaceLabels(ticks, width,
                       [line |-> BlankLine(width), lastEnd |-> -1, placed |-> <<>>])
         IN  [line |-> st.line, ticks |-> ticks, placed |-> st.placed]

(***************************************************************************)
(* chart.go: the threshold scale                                           *)
(***************************************************************************)
\* RenderThresholdScale, span := rangeMax - rangeMin, a float64; 1 when it
\* is not positive
ScaleSpan(rangeMin, rangeMax) ==
    ValueOf(FSub(F64(rangeMax), F64(rangeMin)), SpanValue)

\* RenderThresholdScale: float64(width-1) * (x - rangeMin) / span, for a
\* width >= 1 and the float64 span
ScaleQuotient(x, rangeMin, span, width) ==
    FDiv(FTimesInt(width - 1, FSub(F64(x), F64(rangeMin))), span)

\* math.Round(q): half a unit away from zero added, the fraction dropped
RoundValue64(q) ==
    FTrunc(FAdd(q, IF q.neg THEN FDiv(FromInt(-1), FromInt(2))
                   ELSE FDiv(FromInt(1), FromInt(2))))

\* The column as a plausible slip would write it: rounded to the nearest.
ScalePosRounded(x, rangeMin, span, width) ==
    ValueOf(ScaleQuotient(x, rangeMin, span, width), RoundValue64)

\* RenderThresholdScale: int(float64(width-1) * (x - rangeMin) / span)
ScalePos(x, rangeMin, span, width) ==
    FTrunc(ScaleQuotient(x, rangeMin, span, width))

\* RenderThresholdScale, highPos / critPos of the rendering loop: the column
\* of a threshold that is present and above rangeMin, else -1
MarkerPos(has, threshold, rangeMin, span, width) ==
    IF has /\ threshold > rangeMin THEN ScalePos(threshold, rangeMin, span, width)
    ELSE -1

\* RenderThresholdScale, whether bar[pos] is set to the marker rune for a
\* threshold
OnBar(pos, width) == pos >= 0 /\ pos < width
MarkerPlaced(has, threshold, rangeMin, span, width) ==
    /\ has
    /\ threshold > rangeMin
    /\ OnBar(ScalePos(threshold, rangeMin, span, width), width)

\* RenderThresholdScale, curPos: the column of the current value, clamped
ClampColumn(pos, width) ==
    IF pos < 0 THEN 0 ELSE IF pos >= width THEN width - 1 ELSE pos
CurPos(current, rangeMin, span, width) ==
    ClampColumn(ScalePos(current, rangeMin, span, width), width)

NeutralGlyph == Glyph("U+00B7", "236", FALSE)
MarkerGlyph(fg) == Glyph("U+25AA", fg, FALSE)
CurrentGlyph(fg) == Glyph("U+25C6", fg, TRUE)

\* The choice as a plausible slip would write it: the high marker is tested
\* before the critical one.
ScaleGlyphHighFirst(i, curPos, marked, highPos, critPos, curColor) ==
    IF i = curPos THEN CurrentGlyph(curColor)
    ELSE IF marked
         THEN IF i = highPos THEN MarkerGlyph("220")
              ELSE IF i = critPos THEN MarkerGlyph("196")
              ELSE MarkerGlyph("240")
    ELSE NeutralGlyph

\* RenderThresholdScale, the glyph of column i (from 0) in the rendering
\* loop; marked says that bar[i] holds the marker rune.
ScaleGlyph(i, curPos, marked, highPos, critPos, curColor) ==
    IF i = curPos THEN CurrentGlyph(curColor)
    ELSE IF marked
         THEN IF i = critPos THEN MarkerGlyph("196")
              ELSE IF i = highPos THEN MarkerGlyph("220")
              ELSE MarkerGlyph("240")
    ELSE NeutralGlyph

\* RenderThresholdScale, the columns worked out before the rendering loop,
\* for the float64 span
ScaleColumns(current, rangeMin, span, high, crit, hasHigh, hasCrit, width) ==
    [highPlaced |-> MarkerPlaced(hasHigh, high, rangeMin, span, width),
     critPlaced |-> MarkerPlaced(hasCrit, crit, rangeMin, span, width),
     highPos |-> MarkerPos(hasHigh, high, rangeMin, span, width),
     critPos |-> MarkerPos(hasCrit, crit, rangeMin, span, width),
     curPos |-> CurPos(current, rangeMin, span, width)]

\* whether bar[i] holds the marker rune
Marked(cols, i) ==
    \/ cols.highPlaced /\ i = cols.highPos
    \/ cols.critPlaced /\ i = cols.critPos

\* RenderThresholdScale, the rendering loop over the columns
ScaleBar(cols, curColor, width) ==
    [bar |-> [c \in 1 .. width |->
                 ScaleGlyph(c - 1, cols.curPos, Marked(cols, c - 1), cols.highPos,
                            cols.critPos, curColor)],
     highAt |-> IF cols.highPlaced THEN cols.highPos ELSE -1,
     critAt |-> IF cols.critPlaced THEN cols.critPos ELSE -1,
     curPos |-> cols.curPos]

\* RenderThresholdScale: the glyphs of the bar, with the columns computed on
\* the way (highAt / critAt: the column the marker was put at, -1 if none).
RenderThresholdScale(current, rangeMin, rangeMax, high, crit, hasHigh, hasCrit, width) ==
    IF width <= 0
    THEN [bar |-> <<>>, highAt |-> -1, critAt |-> -1, curPos |-> -1]
    ELSE ValueOf(ValueOf(ScaleSpan(rangeMin, rangeMax),
                         LAMBDA span : ScaleColumns(current, rangeMin, span, high,
                                                    crit, hasHigh, hasCrit, width)),
                 LAMBDA cols : ScaleBar(cols,
                                        TempColor(current, high, crit, hasHigh, hasCrit),
                                        width))

(***************************************************************************)
(* viewer.go: the window of a series at the cursor, the nearest point      *)
(***************************************************************************)
\* viewer.go dataPoint
DataPoint(t, temp) == [time |-> t, temp |-> temp]

\* buildSparkWindow, tempMap, keyed by p.time.Unix(): whether the map has an
\* entry for the second of time t
TempMapHas(pts, t) == \E k \in 1 .. Len(pts) : Unix(pts[k].time) = Unix(t)

\* buildSparkWindow, tempMap: the entry for the second of time t; a later
\* point of pts overwrites an earlier one of the same second
TempMapGet(pts, t) ==
    pts[CHOOSE k \in 1 .. Len(pts) :
            /\ Unix(pts[k].time) = Unix(t)
            /\ \A m \in k + 1 .. Len(pts) : Unix(pts[m].time) # Unix(t)].temp

\* The first offset as a plausible slip would write it: one slot too many.
FirstOffsetWide(width) == width

\* buildSparkWindow, the loop's first offset from the cursor: i := width - 1
FirstOffset(width) == width - 1

\* buildSparkWindow, the walk "for i := ...; i >= 0; i--" from offset i on,
\* result being what was appended so far
RECURSIVE WalkSlots(_, _, _, _, _)
WalkSlots(pts, cursorIdx, timeSlots, i, result) ==
    IF i < 0 THEN result
    ELSE LET slotIdx == cursorIdx - i
             skipped == slotIdx < 0 \/ slotIdx >= Len(timeSlots)
             t == timeSlots[slotIdx + 1]
         IN  WalkSlots(pts, cursorIdx, timeSlots, i - 1,
                       IF ~skipped /\ TempMapHas(pts, t)
                       THEN Append(result, HistoryPoint(TempMapGet(pts, t), t))
                       ELSE result)

\* The test as a plausible slip would write it: the cursor point is always
\* appended.
NeedsCursorAlways(result, cursorTime) == TRUE

\* buildSparkWindow, the test that the walk did not end with the cursor's
\* point
NeedsCursor(result, cursorTime) ==
    Len(result) = 0 \/ ~SameTime(result[Len(result)].Time, cursorTime)

\* buildSparkWindow; cursorIdx counts from 0 and is a valid index of
\* timeSlots when timeSlots is not empty
buildSparkWindow(pts, cursorIdx, width, timeSlots) ==
    IF Len(pts) = 0 \/ Len(timeSlots) = 0 THEN <<>>
    ELSE LET cursorTime == timeSlots[cursorIdx + 1]
             walked == WalkSlots(pts, cursorIdx, timeSlots, FirstOffset(width), <<>>)
         IN  IF TempMapHas(pts, cursorTime) /\ NeedsCursor(walked, cursorTime)
             THEN Append(walked, HistoryPoint(TempMapGet(pts, cursorTime), cursorTime))
             ELSE walked

\* viewer.go absDuration
absDuration(d) ==
    IF IsWhole(d) THEN (IF d < 0 THEN -d ELSE d)
    ELSE IF d.sec < 0 THEN [sec |-> -d.sec - 1, nsec |-> 1000000000 - d.nsec]
    ELSE d

\* The comparison as a plausible slip would write it: an equally near point
\* replaces the best one.
CloserOrEqual(diff, bestDiff) == ~Before(bestDiff, diff)

\* findTempAtTime, "if diff < bestDiff"
Closer(diff, bestDiff) == Before(diff, bestDiff)

\* findTempAtTime, the loop from the k-th point on (k from 1), with the
\* early exit at a point after t that is farther than the best
RECURSIVE ScanNearest(_, _, _, _, _)
ScanNearest(pts, t, k, best, bestDiff) ==
    IF k > Len(pts) THEN best
    ELSE LET diff == absDuration(Sub(pts[k].time, t))
             newBest == IF Closer(diff, bestDiff) THEN pts[k].temp ELSE best
             newDiff == IF Closer(diff, bestDiff) THEN diff ELSE bestDiff
         IN  IF Before(t, pts[k].time) /\ Before(newDiff, diff) THEN newBest
             ELSE ScanNearest(pts, t, k + 1, newBest, newDiff)

\* findTempAtTime, for a non-empty pts
findTempAtTime(pts, t) ==
    ScanNearest(pts, t, 1, pts[1].temp, absDuration(Sub(pts[1].time, t)))

(***************************************************************************)
(* viewer.go: the view model of a day and the keys                         *)
(***************************************************************************)
\* The sensor keys of the model in the byte order sort.Strings uses.
KeyOrder == <<"amdgpu/edge", "coretemp/Core 0", "nvme/Composite">>
KeyRank(k) == CHOOSE i \in 1 .. Len(KeyOrder) : KeyOrder[i] = k

\* sort.Strings of a slice holding each key of S once
RECURSIVE SortKeys(_)
SortKeys(S) ==
    IF S = {} THEN <<>>
    ELSE LET k == CHOOSE x \in S : \A y \in S : KeyRank(x) <= KeyRank(y)
         IN  <<k>> \o SortKeys(S \ {k})

\* a slice holding each whole second of S once, sorted
RECURSIVE SortTimes(_)
SortTimes(S) ==
    IF S = {} THEN <<>>
    ELSE LET t == CHOOSE x \in S : \A y \in S : x <= y
         IN  <<t>> \o SortTimes(S \ {t})

\* sensor.Reading.Key
Key(chip, label) == chip \o "/" \o label

\* store.StoredReading
StoredReading(t, chip, label, temp, high, crit) ==
    [Time |-> t, Chip |-> chip, Label |-> label, Temp |-> temp, High |-> high,
     Crit |-> crit]

\* loadDay: key := r.Chip + "/" + r.Label
RowKey(r) == Key(r.Chip, r.Label)

\* loadDay, m.sensors: the keys of the rows, each once, sorted
LoadSensors(rows) == SortKeys({RowKey(rows[i]) : i \in 1 .. Len(rows)})

\* loadDay, timeSet keyed by r.Time.Unix(): the time of the last row of the
\* second sec
LastOfSecond(rows, sec) ==
    rows[CHOOSE i \in 1 .. Len(rows) :
             /\ Unix(rows[i].Time) = sec
             /\ \A j \in i + 1 .. Len(rows) : Unix(rows[j].Time) # sec].Time

\* loadDay, m.timeSlots: one slot for each second of the rows, with the time
\* of the last row of that second, sorted by Before
LoadTimeSlots(rows) ==
    LET secs == SortTimes({Unix(rows[i].Time) : i \in 1 .. Len(rows)})
    IN  [k \in 1 .. Len(secs) |-> LastOfSecond(rows, secs[k])]

\* a slice holding each stamp of S once, in their order
RECURSIVE SortStamps(_)
SortStamps(S) ==
    IF S = {} THEN <<>>
    ELSE LET t == CHOOSE x \in S : \A y \in S : ~StampBefore(y, x)
         IN  <<t>> \o SortStamps(S \ {t})

\* the times of the points pts, each once, sorted by Before
PointTimes(pts) ==
    LET stamps == SortStamps({Stamp(pts[i].time) : i \in 1 .. Len(pts)})
    IN  [k \in 1 .. Len(stamps) |-> Instant(stamps[k][1], stamps[k][2])]

\* sort.Slice, the orders in which it can leave a group of elements that
\* compare equal, in a slice of n elements: up to 12 elements are insertion
\* sorted, which keeps the order they had; sort.Slice promises no order, and
\* a longer slice is partitioned, which can leave the group in another one
TieOrders(group, n) ==
    IF n <= 12 \/ Len(group) <= 1 THEN {group}
    ELSE { [i \in 1 .. Len(group) |-> group[f[i]]] :
             f \in Permutations(1 .. Len(group)) }

\* The points pts, of the stamps stamps, in the order of the stamps times
\* from the k-th on, points of one stamp in one of the orders of TieOrders
RECURSIVE SortByStamp(_, _, _, _)
SortByStamp(pts, stamps, times, k) ==
    IF k > Len(times) THEN {<<>>}
    ELSE LET same == SelectSeq([i \in 1 .. Len(pts) |-> i],
                               LAMBDA i : stamps[i] = times[k])
         IN  { first \o rest :
                 first \in TieOrders([j \in 1 .. Len(same) |-> pts[same[j]]],
                                     Len(pts)),
                 rest \in SortByStamp(pts, stamps, times, k + 1) }

\* loadDay, sort.Slice of a series by time: the slices it can leave, the
\* points in the order of times (no point is dropped), points of one time
\* in one of the orders of TieOrders
SortByTime(pts, times) ==
    ValueOf(<<>> \o [i \in 1 .. Len(pts) |-> Stamp(pts[i].time)],
            LAMBDA stamps :
                SortByStamp(pts, stamps,
                            [k \in 1 .. Len(times) |-> Stamp(times[k])], 1))

\* loadDay, m.series[key]: one point per row of the key, sorted by time; the
\* slices the sort can leave
LoadSeries(rows, key) ==
    LET mine == SelectSeq(rows, LAMBDA r : RowKey(r) = key)
        pts == [i \in 1 .. Len(mine) |-> DataPoint(mine[i].Time, mine[i].Temp)]
    IN  SortByTime(pts, PointTimes(pts))

\* loadDay, m.series: the maps the sorts of the keys can leave
RECURSIVE LoadSeriesMaps(_, _)
LoadSeriesMaps(rows, keys) ==
    IF Len(keys) = 0 THEN {EmptyMap}
    ELSE { MapPut(f, Head(keys), pts) :
             pts \in LoadSeries(rows, Head(keys)),
             f \in LoadSeriesMaps(rows, Tail(keys)) }

\* loadDay, m.thresholds: for a key with a row of High > 0 or Crit > 0, the
\* thresholds of the last such row
LoadThresholds(rows) ==
    LET has(r) == r.High > 0 \/ r.Crit > 0
        withT == SelectSeq(rows, has)
        lastOf(key) == CHOOSE i \in 1 .. Len(withT) :
                           /\ RowKey(withT[i]) = key
                           /\ \A j \in i + 1 .. Len(withT) : RowKey(withT[j]) # key
    IN  [key \in {RowKey(withT[i]) : i \in 1 .. Len(withT)} |->
            <<withT[lastOf(key)].High, withT[lastOf(key)].Crit>>]

\* The cursor as a plausible slip would leave it: not moved by a load.
LoadCursorKept(cursor, n) == cursor

\* loadDay, the cursor after a load that gave n time slots
LoadCursor(cursor, n) == IF n > 0 THEN n - 1 ELSE cursor

\* initModel's model before its loadDay: the zero value with dayIdx 0
ZeroModel ==
    [dayIdx |-> 0, readings |-> <<>>, sensors |-> <<>>, cursor |-> 0,
     err |-> FALSE, timeSlots |-> <<>>, series |-> EmptyMap,
     thresholds |-> EmptyMap]

\* model.loadDay; loaded is what store.LoadDay returned for the selected
\* day. The models it can leave: one, unless a sort has more than one outcome
loadDay(m, loaded) ==
    IF loaded.err THEN {[m EXCEPT !.err = TRUE]}
    ELSE LET rows == loaded.rows
             slots == LoadTimeSlots(rows)
             sensors == LoadSensors(rows)
         IN  { [m EXCEPT !.readings = rows,
                         !.err = FALSE,
                         !.sensors = sensors,
                         !.timeSlots = slots,
                         !.series = series,
                         !.thresholds = LoadThresholds(rows),
                         !.cursor = LoadCursor(m.cursor, Len(slots))] :
                 series \in LoadSeriesMaps(rows, sensors) }

\* model.Update, the cursor keys
KeyLeft(m) == IF m.cursor > 0 THEN [m EXCEPT !.cursor = m.cursor - 1] ELSE m
KeyRight(m) ==
    IF m.cursor < Len(m.timeSlots) - 1 THEN [m EXCEPT !.cursor = m.cursor + 1] ELSE m
KeyShiftLeft(m) ==
    [m EXCEPT !.cursor = IF m.cursor - 60 < 0 THEN 0 ELSE m.cursor - 60]
KeyShiftRight(m) ==
    [m EXCEPT !.cursor = IF m.cursor + 60 >= Len(m.timeSlots)
                         THEN Len(m.timeSlots) - 1 ELSE m.cursor + 60]
KeyHome(m) == [m EXCEPT !.cursor = 0]
KeyEnd(m) ==
    IF Len(m.timeSlots) > 0 THEN [m EXCEPT !.cursor = Len(m.timeSlots) - 1] ELSE m

\* model.Update, the day keys "[" and "]"; days holds store.LoadDay's result
\* for each listed day. The models the key can leave
KeyOlderDay(m, days) ==
    IF m.dayIdx < Len(days) - 1
    THEN loadDay([m EXCEPT !.dayIdx = m.dayIdx + 1], days[m.dayIdx + 2])
    ELSE {m}
KeyNewerDay(m, days) ==
    IF m.dayIdx > 0
    THEN loadDay([m EXCEPT !.dayIdx = m.dayIdx - 1], days[m.dayIdx])
    ELSE {m}

(***************************************************************************)
(* store: the CSV files of the days. A text is the sequence of its         *)
(* characters; chip and label are kept as strings. A file is the sequence  *)
(* of its records, each the sequence of its fields, which is what          *)
(* encoding/csv writes and reads back. Times are instants in seconds; the  *)
(* zone gives the local wall clock, whose days are counted from            *)
(* 0001-01-01; an instant is computed for the decades around it, as far    *)
(* as the integers reach.                                                  *)
(***************************************************************************)

\* days of a non-leap year before each month
CumDays == <<0, 31, 59, 90, 120, 151, 181, 212, 243, 273, 304, 334, 365>>

\* package time: the calendar, days counted from 0001-01-01
IsLeap(y) == y % 4 = 0 /\ (y % 100 # 0 \/ y % 400 = 0)
DaysBeforeYear(y) ==
    365 * (y - 1) + ((y - 1) \div 4) - ((y - 1) \div 100) + ((y - 1) \div 400)
DaysBeforeMonth(y, m) == CumDays[m] + (IF IsLeap(y) /\ m > 2 THEN 1 ELSE 0)
daysIn(m, y) == DaysBeforeMonth(y, m + 1) - DaysBeforeMonth(y, m)
YearOfDay(d) ==
    LET guess == (d \div 365) + 1
    IN  CHOOSE y \in guess - 1 .. guess + 1 :
            DaysBeforeYear(y) <= d /\ d < DaysBeforeYear(y + 1)

TwoDigits(n) == <<Digits[(n \div 10) + 1], Digits[(n % 10) + 1]>>
FourDigits(n) == TwoDigits(n \div 100) \o TwoDigits(n % 100)
\* the year as layout 2006 prints it, appendInt(b, year, 4)
FormatYear(y) == IF y < 0 THEN <<"-">> \o FourDigits(-y) ELSE FourDigits(y)

\* t.Format(fileLayout), "2006-01-02", of the wall clock w
FormatWallDate(w) ==
    LET day == w \div 86400
        year == YearOfDay(day)
        yday == day - DaysBeforeYear(year)
        month == CHOOSE m \in 1 .. 12 :
                     DaysBeforeMonth(year, m) <= yday /\ yday < DaysBeforeMonth(year, m + 1)
    IN  FormatYear(year) \o <<"-">> \o TwoDigits(month) \o <<"-">>
        \o TwoDigits(yday - DaysBeforeMonth(year, month) + 1)

\* t.Format(fileLayout)
FormatDate(z, t) == FormatWallDate(Wall(z, t))

\* t.Format(timeLayout), "2006-01-02T15:04:05"
FormatTime(z, t) ==
    LET w == Wall(z, t)
    IN  FormatWallDate(w) \o <<"T">> \o TwoDigits((w \div 3600) % 24) \o <<":">>
        \o TwoDigits((w \div 60) % 60) \o <<":">> \o TwoDigits(w % 60)

IsDigit(c) == \E d \in 1 .. 10 : Digits[d] = c
DigitVal(c) == (CHOOSE d \in 1 .. 10 : Digits[d] = c) - 1
AllDigits(cs) == \A i \in 1 .. Len(cs) : IsDigit(cs[i])

\* the number the first i digits of cs name
RECURSIVE NumOfFirst(_, _)
NumOfFirst(cs, i) ==
    IF i = 0 THEN 0 ELSE NumOfFirst(cs, i - 1) * 10 + DigitVal(cs[i])
NumOf(cs) == NumOfFirst(cs, Len(cs))

RECURSIVE Pow(_, _)
Pow(b, n) == IF n <= 0 THEN 1 ELSE b * Pow(b, n - 1)

\* the i-th character of a text, "" behind its end
At(cs, i) == IF 1 <= i /\ i <= Len(cs) THEN cs[i] ELSE ""

\* time.Parse with timeLayout, the pieces of the text: year, month and day
\* of four, two and two characters; the hour (layout 15, getnum not fixed) of
\* two characters if the second is a digit, else of one; minute and second
\* of two; frac is what follows the seconds
TimeFields(cs) ==
    LET k == IF IsDigit(At(cs, 13)) THEN 13 ELSE 12
    IN  [year |-> SubSeq(cs, 1, 4), month |-> SubSeq(cs, 6, 7),
         day |-> SubSeq(cs, 9, 10), hour |-> SubSeq(cs, 12, k),
         min |-> SubSeq(cs, k + 2, k + 3), sec |-> SubSeq(cs, k + 5, k + 6),
         seps |-> <<cs[5], cs[8], cs[11], cs[k + 1], cs[k + 4]>>,
         frac |-> SubSeq(cs, k + 7, Len(cs))]

\* time.Parse, the checks on the pieces
TimeFieldsOk(f) ==
    /\ f.seps = <<"-", "-", "T", ":", ":">>
    /\ AllDigits(f.year) /\ AllDigits(f.month) /\ AllDigits(f.day)
    /\ AllDigits(f.hour) /\ AllDigits(f.min) /\ AllDigits(f.sec)
    /\ NumOf(f.month) \in 1 .. 12
    /\ NumOf(f.day) >= 1
    /\ NumOf(f.day) <= daysIn(NumOf(f.month), NumOf(f.year))
    /\ NumOf(f.hour) < 24
    /\ NumOf(f.min) < 60
    /\ NumOf(f.sec) < 60
    /\ \/ Len(f.frac) = 0
       \/ /\ Len(f.frac) >= 2
          /\ f.frac[1] \in {".", ","}
          /\ AllDigits(Tail(f.frac))

\* time.ParseInLocation(timeLayout, ...): whether the text parses. After the
\* seconds a fractional second is accepted though the layout has none: a
\* point or comma and digits; nothing else may follow
TimeParses(cs) ==
    /\ Len(cs) >= (IF IsDigit(At(cs, 13)) THEN 19 ELSE 18)
    /\ ValueOf(TimeFields(cs), TimeFieldsOk)

\* the wall clock, in whole seconds, the pieces name
WallOf(f) ==
    (DaysBeforeYear(NumOf(f.year)) + DaysBeforeMonth(NumOf(f.year), NumOf(f.month))
        + NumOf(f.day) - 1) * 86400
    + NumOf(f.hour) * 3600 + NumOf(f.min) * 60 + NumOf(f.sec)

\* the wall clock, in whole seconds, a text that parses names
ParseWall(cs) == ValueOf(TimeFields(cs), WallOf)

\* parseNanoseconds of the fractional second frac: its first nine digits
NanosOf(frac) ==
    LET n == IF Len(frac) - 1 > 9 THEN 9 ELSE Len(frac) - 1
    IN  IF Len(frac) = 0 THEN 0
        ELSE NumOf(SubSeq(frac, 2, n + 1)) * Pow(10, 9 - n)

\* the nanoseconds of the fractional second of a text that parses
ParseNanos(cs) == ValueOf(TimeFields(cs).frac, NanosOf)

\* time.ParseInLocation(timeLayout, text, time.Local): the instant of a wall
\* clock in the zone. The offset is the one in force at the wall clock read
\* as an instant; if the instant so found lies on the other side of the
\* transition, the offset in force there is taken instead.
InstantOfWall(z, w) ==
    LET offset == ZoneOffset(z, w)
        utc == w - offset
        sameSide == (w < z.switch) <=> (utc < z.switch)
    IN  IF offset # 0 /\ ~sameSide THEN w - ZoneOffset(z, utc) ELSE utc
ParseInLocation(z, cs) ==
    Instant(ValueOf(ParseWall(cs), LAMBDA w : InstantOfWall(z, w)), ParseNanos(cs))

RECURSIVE NatDigits(_)
NatDigits(n) ==
    IF n < 10 THEN <<Digits[n + 1]>>
    ELSE NatDigits(n \div 10) \o <<Digits[(n % 10) + 1]>>

\* fmt.Sprintf("%.1f", v) of a value v in tenths
FormatF1(v) ==
    LET a == IF v < 0 THEN -v ELSE v
    IN  (IF v < 0 THEN <<"-">> ELSE <<>>) \o NatDigits(a \div 10) \o <<".">>
        \o <<Digits[(a % 10) + 1]>>

(***************************************************************************)
(* strconv.ParseFloat(s, 64). The value is the float64 nearest to the     *)
(* number the text names. A float64 is written by the shortest decimal     *)
(* that rounds to it: the number of tenths if that is a whole number of    *)
(* at most nine digits, otherwise the sign, the digits without leading     *)
(* and trailing zeros and the power of ten of the last one. Infinities     *)
(* and NaN are "+Inf", "-Inf" and "NaN"; a zero of either sign is 0.       *)
(***************************************************************************)
UpperLetters ==
    <<"A", "B", "C", "D", "E", "F", "G", "H", "I", "J", "K", "L", "M", "N",
      "O", "P", "Q", "R", "S", "T", "U", "V", "W", "X", "Y", "Z">>
LowerLetters ==
    <<"a", "b", "c", "d", "e", "f", "g", "h", "i", "j", "k", "l", "m", "n",
      "o", "p", "q", "r", "s", "t", "u", "v", "w", "x", "y", "z">>
lower(c) ==
    IF \E i \in 1 .. 26 : UpperLetters[i] = c
    THEN LowerLetters[CHOOSE i \in 1 .. 26 : UpperLetters[i] = c]
    ELSE c
LowerText(cs) == [i \in 1 .. Len(cs) |-> lower(cs[i])]

IsHexDigit(c) == IsDigit(c) \/ lower(c) \in {"a", "b", "c", "d", "e", "f"}
HexVal(c) ==
    IF IsDigit(c) THEN DigitVal(c)
    ELSE 9 + (CHOOSE i \in 1 .. 6 : LowerLetters[i] = lower(c))

\* special: "inf", "infinity" with an optional sign and "nan" without one,
\* in any case; "none" for any other text
special(cs) ==
    LET signed == Len(cs) > 0 /\ cs[1] \in {"+", "-"}
        word == LowerText(IF signed THEN Tail(cs) ELSE cs)
    IN  IF word \in {<<"i", "n", "f">>, <<"i", "n", "f", "i", "n", "i", "t", "y">>}
        THEN IF signed /\ cs[1] = "-" THEN "-Inf" ELSE "+Inf"
        ELSE IF ~signed /\ word = <<"n", "a", "n">> THEN "NaN"
        ELSE "none"

\* underscoreOK from the i-th character on: an underscore stands only
\* between digits or between the base prefix and a digit
RECURSIVE UnderscoreScan(_, _, _, _)
UnderscoreScan(cs, i, saw, hex) ==
    IF i > Len(cs) THEN saw # "_"
    ELSE IF IsDigit(cs[i]) \/ (hex /\ IsHexDigit(cs[i]))
         THEN UnderscoreScan(cs, i + 1, "0", hex)
    ELSE IF cs[i] = "_"
         THEN saw = "0" /\ UnderscoreScan(cs, i + 1, "_", hex)
    ELSE saw # "_" /\ UnderscoreScan(cs, i + 1, "!", hex)

underscoreOK(cs) ==
    LET body == IF Len(cs) > 0 /\ cs[1] \in {"+", "-"} THEN Tail(cs) ELSE cs
        prefixed == Len(body) >= 2 /\ body[1] = "0"
                    /\ lower(body[2]) \in {"b", "o", "x"}
    IN  IF prefixed
        THEN UnderscoreScan(body, 3, "0", lower(body[2]) = "x")
        ELSE UnderscoreScan(body, 1, "^", FALSE)

\* readFloat, the pieces of the text: the sign, the base, the mantissa (the
\* longest run of digits of the base, underscores and points, up to a second
\* point) and what follows it
FloatFields(cs) ==
    LET signed == Len(cs) > 0 /\ cs[1] \in {"+", "-"}
        body == IF signed THEN Tail(cs) ELSE cs
        hex == Len(body) > 2 /\ body[1] = "0" /\ lower(body[2]) = "x"
        digits == IF hex THEN SubSeq(body, 3, Len(body)) ELSE body
        isMant(i) ==
            \/ IF hex THEN IsHexDigit(digits[i]) ELSE IsDigit(digits[i])
            \/ digits[i] = "_"
            \/ digits[i] = "." /\ \A j \in 1 .. i - 1 : digits[j] # "."
        n == IF \A i \in 1 .. Len(digits) : isMant(i) THEN Len(digits)
             ELSE (CHOOSE i \in 1 .. Len(digits) :
                       ~isMant(i) /\ \A j \in 1 .. i - 1 : isMant(j)) - 1
    IN  [neg |-> signed /\ cs[1] = "-", hex |-> hex,
         mant |-> SubSeq(digits, 1, n), rest |-> SubSeq(digits, n + 1, Len(digits))]

\* readFloat, the exponent's digits: rest is empty, or the exponent
\* character, an optional sign, a digit, and digits and underscores
ExpDigits(rest) ==
    LET signed == Len(rest) >= 2 /\ rest[2] \in {"+", "-"}
    IN  SubSeq(rest, IF signed THEN 3 ELSE 2, Len(rest))
ExpOk(rest, hex) ==
    IF Len(rest) = 0 THEN ~hex
    ELSE /\ lower(rest[1]) = (IF hex THEN "p" ELSE "e")
         /\ Len(ExpDigits(rest)) >= 1
         /\ IsDigit(ExpDigits(rest)[1])
         /\ \A i \in 1 .. Len(ExpDigits(rest)) :
               IsDigit(ExpDigits(rest)[i]) \/ ExpDigits(rest)[i] = "_"

\* readFloat, the exponent of the first i characters of its digits:
\* e = e*10 + digit as long as e < 10000
RECURSIVE ExpNum(_, _)
ExpNum(digs, i) ==
    IF i = 0 THEN 0
    ELSE ValueOf(ExpNum(digs, i - 1),
                 LAMBDA e : IF digs[i] = "_" \/ e >= 10000 THEN e
                            ELSE e * 10 + DigitVal(digs[i]))
ExpOf(rest) ==
    IF Len(rest) = 0 THEN 0
    ELSE IF Len(rest) >= 2 /\ rest[2] = "-"
         THEN -ExpNum(ExpDigits(rest), Len(ExpDigits(rest)))
    ELSE ExpNum(ExpDigits(rest), Len(ExpDigits(rest)))

\* readFloat, the checks on the pieces: a digit in the mantissa, and the
\* exponent, which a hexadecimal number must have
FloatFieldsOk(f) ==
    /\ \E i \in 1 .. Len(f.mant) :
          IF f.hex THEN IsHexDigit(f.mant[i]) ELSE IsDigit(f.mant[i])
    /\ ExpOk(f.rest, f.hex)

\* whether the text is a decimal or hexadecimal number ParseFloat accepts
FloatSyntaxOk(cs) ==
    /\ ValueOf(FloatFields(cs), FloatFieldsOk)
    /\ (\E i \in 1 .. Len(cs) : cs[i] = "_") => underscoreOK(cs)

\* the digits without the zeros in front and without those at the end
FirstNonZero(digs) ==
    IF \A i \in 1 .. Len(digs) : digs[i] = "0" THEN Len(digs) + 1
    ELSE CHOOSE i \in 1 .. Len(digs) :
             digs[i] # "0" /\ \A j \in 1 .. i - 1 : digs[j] = "0"
LastNonZero(digs) ==
    IF \A i \in 1 .. Len(digs) : digs[i] = "0" THEN 0
    ELSE CHOOSE i \in 1 .. Len(digs) :
             digs[i] # "0" /\ \A j \in i + 1 .. Len(digs) : digs[j] = "0"
StripZeros(digs) == SubSeq(digs, FirstNonZero(digs), LastNonZero(digs))

\* A natural number of any size: the sequence of its decimal digits, the
\* first one not 0; zero is the empty sequence
BigTrim(a) ==
    IF \A i \in 1 .. Len(a) : a[i] = 0 THEN <<>>
    ELSE SubSeq(a, CHOOSE i \in 1 .. Len(a) :
                       a[i] # 0 /\ \A j \in 1 .. i - 1 : a[j] = 0, Len(a))
BigOf(cs) == BigTrim(<<>> \o [i \in 1 .. Len(cs) |-> DigitVal(cs[i])])
BigText(a) == <<>> \o [i \in 1 .. Len(a) |-> Digits[a[i] + 1]]
Zeros(n) == <<>> \o [i \in 1 .. n |-> 0]
PadLeft(a, n) == Zeros(n - Len(a)) \o a

\* twice and five times a natural number; the carry into a digit comes from
\* the digit after it alone
Times2(a) ==
    IF Len(a) = 0 THEN <<>>
    ELSE BigTrim(<<a[1] \div 5>>
                 \o [i \in 1 .. Len(a) |->
                       ((2 * a[i]) % 10) + (IF i < Len(a) THEN a[i + 1] \div 5 ELSE 0)])
Times5(a) ==
    IF Len(a) = 0 THEN <<>>
    ELSE BigTrim(<<a[1] \div 2>>
                 \o [i \in 1 .. Len(a) |->
                       ((5 * a[i]) % 10) + (IF i < Len(a) THEN a[i + 1] \div 2 ELSE 0)])

\* a * 2^k and a * 5^k
RECURSIVE Times2N(_, _)
Times2N(a, k) ==
    IF k = 0 THEN a
    ELSE IF k = 1 THEN Times2(a)
    ELSE ValueOf(Times2N(a, k \div 2), LAMBDA b : Times2N(b, k - k \div 2))
RECURSIVE Times5N(_, _)
Times5N(a, k) ==
    IF k = 0 THEN a
    ELSE IF k = 1 THEN Times5(a)
    ELSE ValueOf(Times5N(a, k \div 2), LAMBDA b : Times5N(b, k - k \div 2))

\* a + 1, and a - 1 of a natural number that is not zero
Increment(a) ==
    IF \A i \in 1 .. Len(a) : a[i] = 9 THEN <<1>> \o Zeros(Len(a))
    ELSE LET p == CHOOSE i \in 1 .. Len(a) :
                      a[i] # 9 /\ \A j \in i + 1 .. Len(a) : a[j] = 9
         IN  <<>> \o [i \in 1 .. Len(a) |->
                        IF i < p THEN a[i] ELSE IF i = p THEN a[i] + 1 ELSE 0]
Decrement(a) ==
    LET p == CHOOSE i \in 1 .. Len(a) :
                 a[i] # 0 /\ \A j \in i + 1 .. Len(a) : a[j] = 0
    IN  BigTrim(<<>> \o [i \in 1 .. Len(a) |->
                           IF i < p THEN a[i] ELSE IF i = p THEN a[i] - 1 ELSE 9])

\* a < b and a <= b of two natural numbers
BigLess(a, b) ==
    \/ Len(a) < Len(b)
    \/ /\ Len(a) = Len(b)
       /\ \E i \in 1 .. Len(a) : a[i] # b[i]
       /\ LET p == CHOOSE i \in 1 .. Len(a) :
                       a[i] # b[i] /\ \A j \in 1 .. i - 1 : a[j] = b[j]
          IN  a[p] < b[p]
BigLessEq(a, b) == ~BigLess(b, a)

\* 2^52 and 2^53: a float64 has a mantissa m of 53 bits, 2^52 <= m < 2^53,
\* or, with the least exponent, a smaller one
TwoTo52 == <<4, 5, 0, 3, 5, 9, 9, 6, 2, 7, 3, 7, 0, 4, 9, 6>>
TwoTo53 == <<9, 0, 0, 7, 1, 9, 9, 2, 5, 4, 7, 4, 0, 9, 9, 2>>

\* The number digits * 10^exp, its whole part and the digits after the point
WholePart(w) ==
    IF Len(w.digits) + w.exp <= 0 THEN <<>>
    ELSE IF w.exp >= 0 THEN w.digits \o Zeros(w.exp)
    ELSE SubSeq(w.digits, 1, Len(w.digits) + w.exp)
FracPart(w) ==
    IF w.exp >= 0 THEN <<>>
    ELSE IF Len(w.digits) + w.exp >= 0
         THEN SubSeq(w.digits, Len(w.digits) + w.exp + 1, Len(w.digits))
    ELSE Zeros(-(Len(w.digits) + w.exp)) \o w.digits

\* digits * 10^exp times 2^k, k of either sign: a half is five tenths
Scale2(w, k) ==
    IF k >= 0 THEN [digits |-> Times2N(w.digits, k), exp |-> w.exp]
    ELSE [digits |-> Times5N(w.digits, -k), exp |-> w.exp + k]

\* The number w / 2^s halved until it is below 2^53, with the s reached
RECURSIVE Normalized(_, _)
Normalized(w, s) ==
    IF BigLess(WholePart(w), TwoTo53) THEN [w |-> w, s |-> s]
    ELSE ValueOf(Scale2(w, -1), LAMBDA half : Normalized(half, s + 1))

\* whether a number with the whole part whole and the digits frac after the
\* point rounds up to the next whole number: to the nearest, a tie to even
RoundsUp(whole, frac) ==
    /\ Len(frac) > 0
    /\ \/ frac[1] > 5
       \/ /\ frac[1] = 5
          /\ \/ \E i \in 2 .. Len(frac) : frac[i] # 0
             \/ Len(whole) > 0 /\ whole[Len(whole)] % 2 = 1

\* The float64 nearest to the decimal w (not zero, below 10^310 and above
\* 10^-330): m * 2^s with s >= -1074; beyond the largest one if s > 971
Nearest(w) ==
    LET top == Len(w.digits) + w.exp
        \* 2^e0 <= w, from log2(10) > 3.321928
        e0 == ((top - 1) * 3321928) \div 1000000 - 1
        s0 == IF e0 - 52 < -1074 THEN -1074 ELSE e0 - 52
        round(n) ==
            LET whole == WholePart(n.w)
                m == IF RoundsUp(whole, FracPart(n.w)) THEN Increment(whole) ELSE whole
            IN  IF m = TwoTo53 THEN [m |-> TwoTo52, s |-> n.s + 1]
                ELSE [m |-> m, s |-> n.s]
    IN  ValueOf(ValueOf(Scale2(w, -s0), LAMBDA w0 : Normalized(w0, s0)), round)

\* The numbers that round to the float64 f = m * 2^s, m not zero: those
\* between low and high, halfway to the float64 before and after, the two
\* ends among them if m is even. All are written in units of 10^exp; digs
\* are the digits of f, as many as those of high.
RoundingEnds(f) ==
    LET narrow == f.m = TwoTo52 /\ f.s > -1074
        k == IF narrow THEN f.s - 2 ELSE f.s - 1
        scaled(a) == Scale2([digits |-> a, exp |-> 0], k).digits
        ends(mid) ==
            [low |-> scaled(Decrement(mid)),
             digs |-> scaled(mid),
             high |-> scaled(IF narrow THEN Increment(Increment(mid))
                             ELSE Increment(mid)),
             closed |-> f.m[Len(f.m)] % 2 = 0,
             exp |-> IF k < 0 THEN k ELSE 0]
        padded(e) == [e EXCEPT !.digs = PadLeft(e.digs, Len(e.high))]
    IN  ValueOf(ValueOf(Times2N(f.m, IF narrow THEN 2 ELSE 1), ends), padded)

\* whether the number a is one of those between the ends e
Within(e, a) ==
    IF e.closed THEN BigLessEq(e.low, a) /\ BigLessEq(a, e.high)
    ELSE BigLess(e.low, a) /\ BigLess(a, e.high)

\* the first p digits of f and zeros, and that plus one unit of the p-th
\* digit
CutDown(e, p) == BigTrim(SubSeq(e.digs, 1, p) \o Zeros(Len(e.digs) - p))
CutUp(e, p) == BigTrim(Increment(SubSeq(e.digs, 1, p)) \o Zeros(Len(e.digs) - p))
CutFits(e, p) == Within(e, CutDown(e, p)) \/ Within(e, CutUp(e, p))

\* The shortest decimal between the ends e, and of those the nearest to f:
\* of the least number p of digits with which a cut of f lies between the
\* ends; if both do, the nearer one, a tie to the even digit
ShortestCut(e) ==
    LET taken(p) ==
            IF Within(e, CutDown(e, p))
            THEN IF Within(e, CutUp(e, p))
                      /\ RoundsUp(SubSeq(e.digs, 1, p),
                                  SubSeq(e.digs, p + 1, Len(e.digs)))
                 THEN CutUp(e, p) ELSE CutDown(e, p)
            ELSE CutUp(e, p)
    IN  ValueOf(CHOOSE i \in 1 .. Len(e.digs) :
                    CutFits(e, i) /\ \A j \in 1 .. i - 1 : ~CutFits(e, j),
                taken)

\* the number a * 10^exp, a not zero, written without zeros at the end
WithoutEndZeros(a, exp) ==
    LET last == CHOOSE i \in 1 .. Len(a) :
                    a[i] # 0 /\ \A j \in i + 1 .. Len(a) : a[j] = 0
    IN  [digits |-> SubSeq(a, 1, last), exp |-> exp + Len(a) - last]

\* The shortest decimal whose nearest float64 is f = m * 2^s, m not zero,
\* and of those the one nearest to f, as strconv.FormatFloat(f, 'e', -1, 64)
\* writes it
Shortest(f) ==
    ValueOf(RoundingEnds(f),
            LAMBDA e : ValueOf(ShortestCut(e), LAMBDA a : WithoutEndZeros(a, e.exp)))

\* the number the first i digits of the natural number a name
RECURSIVE BigValue(_, _)
BigValue(a, i) == IF i = 0 THEN 0 ELSE BigValue(a, i - 1) * 10 + a[i]

\* A float64 that is not zero as the model writes it: the number of tenths
\* if it is one of up to 9 digits, its sign and shortest decimal otherwise
Float64(neg, short) ==
    IF short.exp >= -1 /\ Len(short.digits) + short.exp + 1 <= 9
    THEN (IF neg THEN -1 ELSE 1) * BigValue(short.digits, Len(short.digits))
         * (IF short.exp = -1 THEN 1 ELSE Pow(10, short.exp + 1))
    ELSE [neg |-> neg, digits |-> BigText(short.digits), exp |-> short.exp]

\* the float64 of the decimal w, w.digits * 10^w.exp with the last digit
\* not 0, and the sign neg: the nearest one, a tie to the even mantissa. A
\* decimal of up to 15 digits well inside the range is the shortest decimal
\* of its float64
NearestFloat64(neg, w) ==
    LET top == Len(w.digits) + w.exp
        named(f) == IF f.s > 971 THEN (IF neg THEN "-Inf" ELSE "+Inf")
                    ELSE IF Len(f.m) = 0 THEN 0
                    ELSE ValueOf(Shortest(f), LAMBDA short : Float64(neg, short))
    IN  IF Len(w.digits) = 0 THEN 0
        ELSE IF top > 309 THEN (IF neg THEN "-Inf" ELSE "+Inf")
        ELSE IF top < -323 THEN 0
        ELSE IF Len(w.digits) <= 15 /\ top >= -290 /\ top <= 290
             THEN Float64(neg, w)
        ELSE ValueOf(Nearest(w), named)

\* the float64 of the decimal d, d.digits * 10^d.exp with the sign d.neg
FloatOf(d) ==
    ValueOf([digits |-> BigOf(StripZeros(d.digits)),
             exp |-> d.exp + Len(d.digits) - LastNonZero(d.digits)],
            LAMBDA w : NearestFloat64(d.neg, w))

\* a + v of a natural number and one of up to two digits, v < 20
AddSmall(a, v) ==
    IF Len(a) = 0 THEN BigTrim(<<v \div 10, v % 10>>)
    ELSE LET front == SubSeq(a, 1, Len(a) - 1)
             low == a[Len(a)] + v
         IN  (IF low < 10 THEN front
              ELSE IF low < 20 THEN Increment(front)
              ELSE Increment(Increment(front))) \o <<low % 10>>

\* the number the first i hexadecimal digits of digs name
RECURSIVE HexBig(_, _)
HexBig(digs, i) ==
    IF i = 0 THEN <<>>
    ELSE ValueOf(HexBig(digs, i - 1),
                 LAMBDA a : AddSmall(Times2N(a, 4), HexVal(digs[i])))

\* The decimal of the hexadecimal number of the digits digs, the first one
\* not 0, times 2^b; without digits the number is zero whatever b is. A
\* number of at least 2^1024 or below 2^-1075, which FloatOf takes for
\* infinite or for zero, is named by a decimal it takes for the same.
HexDecimal(digs, b) ==
    IF Len(digs) = 0 THEN [digits |-> <<>>, exp |-> 0]
    ELSE IF 4 * (Len(digs) - 1) + b >= 1024 THEN [digits |-> <<1>>, exp |-> 400]
    ELSE IF 4 * Len(digs) + b <= -1075 THEN [digits |-> <<1>>, exp |-> -400]
    ELSE Scale2([digits |-> HexBig(digs, Len(digs)), exp |-> 0], b)

\* readFloat, the decimal the pieces name
DecimalOf(f) ==
    LET isDig(c) == c # "_" /\ c # "."
        all == SelectSeq(f.mant, isDig)
        point == IF \E i \in 1 .. Len(f.mant) : f.mant[i] = "."
                 THEN CHOOSE i \in 1 .. Len(f.mant) : f.mant[i] = "."
                 ELSE Len(f.mant) + 1
        fracs == Len(SelectSeq(SubSeq(f.mant, point, Len(f.mant)), isDig))
        e == ExpOf(f.rest)
        \* a hexadecimal digit after the point counts for 2^-4
        w == IF f.hex
             THEN ValueOf(HexDecimal(SubSeq(all, FirstNonZero(all), Len(all)),
                                     e - 4 * fracs),
                          LAMBDA hd : [digits |-> BigText(hd.digits), exp |-> hd.exp])
             ELSE [digits |-> all, exp |-> e - fracs]
    IN  [neg |-> f.neg, digits |-> StripZeros(w.digits),
         exp |-> w.exp + Len(w.digits) - LastNonZero(w.digits)]

\* strconv.ParseFloat(s, 64), the value; the caller drops the error, and the
\* value of a text that is not a number is 0
ParseF1(cs) ==
    IF special(cs) # "none" THEN special(cs)
    ELSE IF ~FloatSyntaxOk(cs) THEN 0
    ELSE ValueOf(ValueOf(FloatFields(cs), DecimalOf), FloatOf)

\* sensor.Reading, the fields that are stored
Reading(chip, label, temp, high, crit) ==
    [Chip |-> chip, Label |-> label, Temp |-> temp, High |-> high, Crit |-> crit]

\* &DiskStore{dir: dir}: no file open, curDate ""
NewDiskStore == [curDate |-> <<>>, open |-> FALSE]

TimeHeader == <<"t", "i", "m", "e">>
HeaderRow ==
    <<TimeHeader, "chip", "label", <<"t", "e", "m", "p">>, <<"h", "i", "g", "h">>,
      <<"c", "r", "i", "t">>>>

\* The file as a plausible slip would open it: a header on every opening.
OpenedFileHeaderAlways(existing) == existing \o <<HeaderRow>>

\* DiskStore.Write: the file once opened for appending, the header written
\* if its size is 0
OpenedFile(existing) == IF Len(existing) = 0 THEN <<HeaderRow>> ELSE existing

\* DiskStore.Write: the record of one reading
ReadingRow(ts, r) ==
    <<ts, r.Chip, r.Label, FormatF1(r.Temp), FormatF1(r.High), FormatF1(r.Crit)>>

\* DiskStore.Write: the store and the files after the call (opening and
\* writing succeed)
Write(d, fs, z, readings, t) ==
    LET dateStr == FormatDate(z, t)
        existing == IF dateStr \in DOMAIN fs THEN fs[dateStr] ELSE <<>>
        file == IF d.curDate # dateStr \/ ~d.open THEN OpenedFile(existing)
                ELSE existing
        ts == FormatTime(z, t)
    IN  [ds |-> [curDate |-> dateStr, open |-> TRUE],
         files |-> MapPut(fs, dateStr,
                       file \o [i \in 1 .. Len(readings) |-> ReadingRow(ts, readings[i])])]

\* DiskStore.Close
Close(d) == [d EXCEPT !.open = FALSE]

\* LoadFile, the records kept: not a first record starting with "time", at
\* least 6 fields, a time that parses
RowLoads(file, i) ==
    /\ ~(i = 1 /\ Len(file[i]) > 0 /\ file[i][1] = TimeHeader)
    /\ Len(file[i]) >= 6
    /\ TimeParses(file[i][1])

\* csv.Reader, a field as read back: a field holding a line break was
\* written in quotes, and of a carriage return and a line feed inside the
\* quotes the reader keeps the line feed only. (The other fields of a record
\* are parsed, and parse neither with the carriage return nor without.)
RECURSIVE ReadField(_)
ReadField(s) ==
    IF Len(s) < 2 THEN s
    ELSE IF SubSeq(s, 1, 2) = "\r\n" THEN "\n" \o ReadField(SubSeq(s, 3, Len(s)))
    ELSE SubSeq(s, 1, 1) \o ReadField(SubSeq(s, 2, Len(s)))

\* LoadFile, the reading of a record that is kept
LoadRow(z, row) ==
    StoredReading(ParseInLocation(z, row[1]), ReadField(row[2]), ReadField(row[3]),
                  ParseF1(row[4]), ParseF1(row[5]), ParseF1(row[6]))

\* csv.Reader.ReadAll with FieldsPerRecord 0: every record must have as many
\* fields as the first one
FieldCountOk(file) == \A i \in 1 .. Len(file) : Len(file[i]) = Len(file[1])

\* LoadFile of the file named by the date day: an error if the file cannot
\* be opened or read
LoadFile(fs, z, day) ==
    IF day \notin DOMAIN fs THEN [err |-> TRUE, rows |-> <<>>]
    ELSE IF ~FieldCountOk(fs[day]) THEN [err |-> TRUE, rows |-> <<>>]
    ELSE LET file == fs[day]
             kept == SelectSeq([i \in 1 .. Len(file) |-> i],
                               LAMBDA i : RowLoads(file, i))
         IN  [err |-> FALSE,
              rows |-> ValueOf(kept, LAMBDA k :
                          [j \in 1 .. Len(k) |-> LoadRow(z, file[k[j]])])]

(***************************************************************************)
(* monitor.go: the live monitor. The host runs every command returned by   *)
(* Init or Update on its own and hands the message it returns to Update,   *)
(* one message at a time; a timer command returns its tick after the poll  *)
(* interval. The window size (width, height) is left out.                  *)
(***************************************************************************)
\* const historySize
historySize == 600

\* New: the model before Init; hasStore is whether store.New succeeded
NewModel(hasStore) ==
    [readings |-> <<>>, order |-> <<>>, err |-> ~hasStore, lastPoll |-> 0,
     paused |-> FALSE, hasStore |-> hasStore, scroll |-> 0]

\* Init: the commands it returns, tea.Batch(pollSensors, tickCmd())
InitCommands == [polls |-> 1, timers |-> 1]

\* The commands as a plausible slip would return them: no timer while
\* paused.
TickCommandsPausedStops(m) ==
    IF m.paused THEN [polls |-> 0, timers |-> 0] ELSE [polls |-> 1, timers |-> 1]

\* Update, case tickMsg: the commands returned
TickCommands(m) ==
    IF m.paused THEN [polls |-> 0, timers |-> 1] ELSE [polls |-> 1, timers |-> 1]

\* Update, case errMsg: the commands returned, tickCmd()
ErrCommands == [polls |-> 0, timers |-> 1]

\* Update, case errMsg: the model
UpdateErr(m) == [m EXCEPT !.err = TRUE]

\* Update, key " " or "p"
UpdatePause(m) == [m EXCEPT !.paused = ~m.paused]

\* Update, keys "up"/"k", "down"/"j" and "home"
UpdateScroll(m, key) ==
    CASE key = "up" -> [m EXCEPT !.scroll = IF m.scroll > 0 THEN m.scroll - 1 ELSE m.scroll]
      [] key = "down" -> [m EXCEPT !.scroll = m.scroll + 1]
      [] key = "home" -> [m EXCEPT !.scroll = 0]

\* The key as a plausible slip would build it: the chip alone.
ReadingKeyChipOnly(r) == r.Chip

\* r.Key() of a reading
ReadingKey(r) == Key(r.Chip, r.Label)

\* The loop as a plausible slip would write it: only the last reading is
\* recorded.
RecordAllLastOnly(data, capacity, readings, t, i) ==
    IF Len(readings) = 0 THEN data
    ELSE Record(data, capacity, ReadingKey(readings[Len(readings)]),
                readings[Len(readings)].Temp, t)

\* Update, case sensorDataMsg: the loop of m.history.Record over the
\* readings from the i-th to the j-th, in their order; a stretch of several
\* readings is gone through as its first half and then, from what that
\* leaves, its second half
RECURSIVE RecordRange(_, _, _, _, _, _)
RecordRange(data, capacity, readings, t, i, j) ==
    IF i > j THEN data
    ELSE IF i = j
         THEN Record(data, capacity, ReadingKey(readings[i]), readings[i].Temp, t)
    ELSE ValueOf(RecordRange(data, capacity, readings, t, i, (i + j) \div 2),
                 LAMBDA half : RecordRange(half, capacity, readings, t,
                                           (i + j) \div 2 + 1, j))

\* Update, case sensorDataMsg: the loop of m.history.Record from the i-th
\* reading on
RecordAll(data, capacity, readings, t, i) ==
    RecordRange(data, capacity, readings, t, i, Len(readings))

\* The order as a plausible slip would build it: all keys sorted anew.
buildOrderResorted(readings, existing) ==
    SortKeys({existing[i] : i \in 1 .. Len(existing)}
             \cup {ReadingKey(readings[i]) : i \in 1 .. Len(readings)})

\* buildOrder: the existing order, then the keys not seen before, each once,
\* sorted
buildOrder(readings, existing) ==
    LET seen == {existing[i] : i \in 1 .. Len(existing)}
        newKeys == {ReadingKey(readings[i]) : i \in 1 .. Len(readings)} \ seen
    IN  existing \o SortKeys(newKeys)

\* Update, case sensorDataMsg: the model
UpdateData(m, readings, t) ==
    [m EXCEPT !.readings = readings,
              !.lastPoll = t,
              !.order = buildOrder(readings, m.order)]

\* pollSensors: the message of a poll whose sensor.ReadAll has returned,
\* stamped with time.Now()
PollResult(id, failed, readings, t) ==
    IF failed THEN [id |-> id, st |-> "err", readings |-> <<>>, time |-> 0]
    ELSE [id |-> id, st |-> "data", readings |-> readings, time |-> t]

\* a pollSensors command whose sensor.ReadAll is still running
PollRunning(id) == [id |-> id, st |-> "running", readings |-> <<>>, time |-> 0]

(***************************************************************************)
(* Idle values of the variables a specification does not use.              *)
(***************************************************************************)
NoCall == [op |-> "none"]

BufferIdle ==
    /\ h = NewHistory(0)
    /\ pushedH = <<>>

StoreIdle ==
    /\ Data = EmptyMap
    /\ Capacity = 0
    /\ pushed = [k \in Keys |-> <<>>]

ChartIdle ==
    /\ args = NoCall
    /\ out = NoCall

BrowseIdle ==
    /\ vm = NoCall
    /\ dayRows = <<>>

MonitorIdle ==
    /\ mon = NoCall
    /\ timers = 0
    /\ polls = {}
    /\ now = 0
    /\ issued = 0
    /\ ticksDone = 0
    /\ host = NoCall

DiskIdle ==
    /\ ds = NoCall
    /\ files = EmptyMap
    /\ zone = NoCall
    /\ writes = <<>>

AppIdle == BrowseIdle /\ MonitorIdle /\ DiskIdle

(***************************************************************************)
(* SpecHistory: one ring buffer, pushed into and queried.                  *)
(***************************************************************************)
InitHistory ==
    /\ \E c \in 1 .. MaxCap : h = NewHistory(c)
    /\ pushedH = <<>>
    /\ ret = NoCall
    /\ StoreIdle
    /\ ChartIdle
    /\ AppIdle

DoPush(temp, t) ==
    /\ Len(pushedH) < MaxPushes
    /\ h' = Push(h, temp, t)
    /\ pushedH' = Append(pushedH, HistoryPoint(temp, t))
    /\ ret' = [op |-> "Push"]
    /\ UNCHANGED <<AppVars, Data, Capacity, pushed, args, out>>

DoLast ==
    /\ ret' = [op |-> "Last", val |-> Last(h)]
    /\ UNCHANGED <<AppVars, h, pushedH, Data, Capacity, pushed, args, out>>

DoAvg ==
    /\ ret' = [op |-> "Avg", val |-> Avg(h)]
    /\ UNCHANGED <<AppVars, h, pushedH, Data, Capacity, pushed, args, out>>

DoLastN(n) ==
    /\ ret' = [op |-> "LastN", n |-> n, val |-> LastN(h, n)]
    /\ UNCHANGED <<AppVars, h, pushedH, Data, Capacity, pushed, args, out>>

DoLastNPoints(n) ==
    /\ ret' = [op |-> "LastNPoints", n |-> n, val |-> LastNPoints(h, n)]
    /\ UNCHANGED <<AppVars, h, pushedH, Data, Capacity, pushed, args, out>>

NextHistory ==
    \/ \E temp \in Temps, t \in HistTimes : DoPush(temp, t)
    \/ DoLast
    \/ DoAvg
    \/ \E n \in Ns : DoLastN(n)
    \/ \E n \in Ns : DoLastNPoints(n)

SpecHistory == InitHistory /\ [][NextHistory]_vars

(***************************************************************************)
(* SpecStore: a HistoryStore, recorded into and looked up.                 *)
(***************************************************************************)
RECURSIVE TotalLen(_, _)
TotalLen(f, ks) ==
    IF ks = {} THEN 0
    ELSE LET k == CHOOSE x \in ks : TRUE
         IN  Len(f[k]) + TotalLen(f, ks \ {k})

InitStore ==
    /\ \E c \in 1 .. MaxCap : Capacity = c
    /\ Data = EmptyMap
    /\ pushed = [k \in Keys |-> <<>>]
    /\ ret = NoCall
    /\ BufferIdle
    /\ ChartIdle
    /\ AppIdle

DoRecord(key, temp, t) ==
    /\ TotalLen(pushed, Keys) < MaxRecords
    /\ Data' = Record(Data, Capacity, key, temp, t)
    /\ pushed' = [pushed EXCEPT ![key] = Append(@, HistoryPoint(temp, t))]
    /\ ret' = [op |-> "Record", key |-> key]
    /\ UNCHANGED <<AppVars, h, pushedH, Capacity, args, out>>

DoGet(key) ==
    /\ ret' = [op |-> "Get", key |-> key, val |-> Get(Data, key)]
    /\ UNCHANGED <<AppVars, h, pushedH, Data, Capacity, pushed, args, out>>

NextStore ==
    \/ \E key \in Keys, temp \in Temps, t \in HistTimes : DoRecord(key, temp, t)
    \/ \E key \in Keys : DoGet(key)

SpecStore == InitStore /\ [][NextStore]_vars

(***************************************************************************)
(* SpecChart: one call of a pure chart function on drawn arguments.        *)
(***************************************************************************)
SeqsUpTo(S, n) == UNION {[1 .. k -> S] : k \in 0 .. n}

ColorCalls ==
    { [op |-> "TempColor", v |-> v, high |-> th[1], crit |-> th[2],
       hasHigh |-> hh, hasCrit |-> hc] :
      v \in ColorValues, th \in ColorThresholds, hh \in BOOLEAN, hc \in BOOLEAN }

SparkCalls ==
    { [op |-> "RenderSparklinePoints", points |-> pts, width |-> w,
       rangeMin |-> r[1], rangeMax |-> r[2], high |-> hi, crit |-> cr,
       hasHigh |-> hh, hasCrit |-> hc] :
      pts \in SeqsUpTo(SparkPoints, MaxPoints), w \in Widths, r \in Ranges,
      hi \in SparkHigh, cr \in SparkCrit, hh \in BOOLEAN, hc \in BOOLEAN }

SparkValueCalls ==
    { [op |-> "RenderSparkline", values |-> vs, width |-> w,
       rangeMin |-> r[1], rangeMax |-> r[2], high |-> hi, crit |-> cr,
       hasHigh |-> hh, hasCrit |-> hc] :
      vs \in SeqsUpTo(SparkValues, MaxPoints), w \in Widths, r \in Ranges,
      hi \in SparkHigh, cr \in SparkCrit, hh \in BOOLEAN, hc \in BOOLEAN }

\* n points from start, step seconds apart; with gapped, every third one
\* carries no timestamp
Run(start, step, n, gapped) ==
    [i \in 1 .. n |->
        [Temp |-> 700,
         Time |-> IF gapped /\ i % 3 = 0 THEN 0 ELSE start + (i - 1) * step]]

Runs ==
    { Run(start, step, n, g) :
      start \in RunStarts, step \in RunSteps, n \in 0 .. MaxRun, g \in BOOLEAN }

TimelineCalls ==
    { [op |-> "RenderTimeline", points |-> pts, width |-> w] :
      pts \in SeqsUpTo(SparkPoints, MaxPoints) \cup Runs, w \in TimelineWidths }

ScaleCalls ==
    { [op |-> "RenderThresholdScale", current |-> cur, rangeMin |-> r[1],
       rangeMax |-> r[2], high |-> th[1], crit |-> th[2], hasHigh |-> hh,
       hasCrit |-> hc, width |-> w] :
      cur \in ScaleCurrents, r \in ScaleRanges, th \in ScaleThresholds,
      hh \in BOOLEAN, hc \in BOOLEAN, w \in ScaleWidths }

\* time.Local of a call: the points of a call are stamped in it
ChartZones == {FixedZone, HalfHourZone}

InitChart ==
    /\ \/ args \in ColorCalls /\ zone = FixedZone
       \/ args \in SparkCalls /\ zone \in ChartZones
       \/ args \in SparkValueCalls /\ zone = FixedZone
       \/ args \in TimelineCalls /\ zone \in ChartZones
       \/ args \in ScaleCalls /\ zone = FixedZone
    /\ out = NoCall
    /\ ret = NoCall
    /\ BufferIdle
    /\ StoreIdle
    /\ BrowseIdle
    /\ MonitorIdle
    /\ ds = NoCall
    /\ files = EmptyMap
    /\ writes = <<>>

DoTempColor ==
    /\ args.op = "TempColor"
    /\ out = NoCall
    /\ out' = [op |-> "TempColor",
               val |-> TempColor(args.v, args.high, args.crit, args.hasHigh, args.hasCrit)]
    /\ UNCHANGED <<AppVars, h, pushedH, Data, Capacity, pushed, ret, args>>

DoRenderSparklinePoints ==
    /\ args.op = "RenderSparklinePoints"
    /\ out = NoCall
    /\ out' = [op |-> "RenderSparklinePoints",
               val |-> RenderSparklinePoints(args.points, args.width,
                          args.rangeMin, args.rangeMax, args.high, args.crit,
                          args.hasHigh, args.hasCrit)]
    /\ UNCHANGED <<AppVars, h, pushedH, Data, Capacity, pushed, ret, args>>

DoRenderSparkline ==
    /\ args.op = "RenderSparkline"
    /\ out = NoCall
    /\ out' = [op |-> "RenderSparkline",
               val |-> RenderSparkline(args.values, args.width,
                          args.rangeMin, args.rangeMax, args.high, args.crit,
                          args.hasHigh, args.hasCrit)]
    /\ UNCHANGED <<AppVars, h, pushedH, Data, Capacity, pushed, ret, args>>

DoRenderTimeline ==
    /\ args.op = "RenderTimeline"
    /\ out = NoCall
    /\ out' = [op |-> "RenderTimeline", val |-> RenderTimeline(args.points, args.width)]
    /\ UNCHANGED <<AppVars, h, pushedH, Data, Capacity, pushed, ret, args>>

DoRenderThresholdScale ==
    /\ args.op = "RenderThresholdScale"
    /\ out = NoCall
    /\ out' = [op |-> "RenderThresholdScale",
               val |-> RenderThresholdScale(args.current, args.rangeMin,
                          args.rangeMax, args.high, args.crit, args.hasHigh,
                          args.hasCrit, args.width)]
    /\ UNCHANGED <<AppVars, h, pushedH, Data, Capacity, pushed, ret, args>>

NextChart ==
    \/ DoTempColor
    \/ DoRenderSparklinePoints
    \/ DoRenderSparkline
    \/ DoRenderTimeline
    \/ DoRenderThresholdScale

SpecChart == InitChart /\ [][NextChart]_vars

(***************************************************************************)
(* SpecViewer: one call of a pure viewer function on drawn arguments. The  *)
(* arguments are what loadDay builds: timeSlots strictly increasing, a     *)
(* series sorted by time whose times are slots, two readings of one        *)
(* second being possible.                                                  *)
(***************************************************************************)
SlotTime(k) == 50000 + 10 * k
SlotTemp(k) == 400 + 10 * k
StaleTemp(k) == 300 + k
SlotTimes(n) == [k \in 1 .. n |-> SlotTime(k)]

\* the series with a value at the slots of present, from slot k on; dup
\* gives every such slot an earlier reading of the same second
RECURSIVE SeriesFrom(_, _, _, _)
SeriesFrom(k, n, present, dup) ==
    IF k > n THEN <<>>
    ELSE (IF k \in present
          THEN (IF dup THEN <<DataPoint(SlotTime(k), StaleTemp(k))>> ELSE <<>>)
               \o <<DataPoint(SlotTime(k), SlotTemp(k))>>
          ELSE <<>>)
         \o SeriesFrom(k + 1, n, present, dup)

WindowWidths == {-1, 0, 1, 2, MaxSlots, MaxSlots + 2}

WindowCalls ==
    { [op |-> "buildSparkWindow", pts |-> SeriesFrom(1, n, present, dup),
       cursorIdx |-> c, width |-> w, timeSlots |-> SlotTimes(n)] :
      n \in {0}, present \in {{}}, dup \in {FALSE}, c \in {0}, w \in WindowWidths }
    \cup
    UNION { { [op |-> "buildSparkWindow", pts |-> SeriesFrom(1, n, present, dup),
               cursorIdx |-> c, width |-> w, timeSlots |-> SlotTimes(n)] :
              present \in SUBSET (1 .. n), dup \in BOOLEAN, c \in 0 .. n - 1,
              w \in WindowWidths } : n \in 1 .. MaxSlots }

\* ten slots requested, the series missing three of them
GapCalls ==
    { [op |-> "buildSparkWindow",
       pts |-> SeriesFrom(1, 10, (1 .. 10) \ missing, FALSE),
       cursorIdx |-> 9, width |-> w, timeSlots |-> SlotTimes(10)] :
      missing \in {{2, 5, 8}, {1, 6, 10}}, w \in {10, 12} }

NearTimes == {100, 110, 120, 130}
NearTemps == {400, 500}
NearTargets == {95, 105, 110, 115, 125, 140}

IsSortedByTime(pts) ==
    \A i \in 1 .. Len(pts) - 1 : pts[i].time <= pts[i + 1].time

NearSeries ==
    { pts \in SeqsUpTo([time : NearTimes, temp : NearTemps], MaxPoints) :
        Len(pts) > 0 /\ IsSortedByTime(pts) }

NearestCalls ==
    { [op |-> "findTempAtTime", pts |-> pts, t |-> t] :
      pts \in NearSeries, t \in NearTargets }

ViewerCalls == WindowCalls \cup GapCalls \cup NearestCalls

InitViewer ==
    /\ args \in ViewerCalls
    /\ out = NoCall
    /\ ret = NoCall
    /\ BufferIdle
    /\ StoreIdle
    /\ AppIdle

DoBuildSparkWindow ==
    /\ args.op = "buildSparkWindow"
    /\ out = NoCall
    /\ out' = [op |-> "buildSparkWindow",
               val |-> buildSparkWindow(args.pts, args.cursorIdx, args.width,
                                        args.timeSlots)]
    /\ UNCHANGED <<AppVars, h, pushedH, Data, Capacity, pushed, ret, args>>

DoFindTempAtTime ==
    /\ args.op = "findTempAtTime"
    /\ out = NoCall
    /\ out' = [op |-> "findTempAtTime", val |-> findTempAtTime(args.pts, args.t)]
    /\ UNCHANGED <<AppVars, h, pushedH, Data, Capacity, pushed, ret, args>>

NextViewer ==
    \/ DoBuildSparkWindow
    \/ DoFindTempAtTime

SpecViewer == InitViewer /\ [][NextViewer]_vars

(***************************************************************************)
(* SpecBrowse: the history viewer over three stored days, driven by keys.  *)
(* The layout fields (scroll, width, height) are left out.                 *)
(***************************************************************************)
BrowseRows ==
    { StoredReading(t, "coretemp", "Core 0", 450 + (t % 60), 800, 1000) :
        t \in {50400, 50401} }
    \cup { StoredReading(t, "amdgpu", "edge", 520, 0, 0) : t \in {50400, 50401} }

LoadFails == [err |-> TRUE, rows |-> <<>>]
Loaded(rows) == [err |-> FALSE, rows |-> rows]

\* more than 60 slots, so that a jump of 60 stays inside the timeline
LongDay ==
    Loaded([k \in 1 .. 62 |->
               StoredReading(43200 + 10 * k, "nvme", "Composite", 380, 0, 0)])

\* the long day with a second row for its 31st second, as a repeated hour
\* leaves it
LongDayRepeated ==
    Loaded(LongDay.rows
           \o <<StoredReading(43200 + 10 * 31, "nvme", "Composite", 390, 0, 0)>>)

OtherDay ==
    Loaded(<<StoredReading(61200, "nvme", "Composite", 400, 818, 848),
             StoredReading(61201, "nvme", "Composite", 410, 818, 848)>>)

InitBrowse ==
    /\ \E a \in SeqsUpTo(BrowseRows, MaxRows) :
       \E b \in {LoadFails, Loaded(<<>>), OtherDay} :
       \E c \in {LongDay, LongDayRepeated, LoadFails} :
           dayRows = <<Loaded(a), b, c>>
    /\ vm \in loadDay(ZeroModel, dayRows[1])
    /\ ret = NoCall
    /\ BufferIdle
    /\ StoreIdle
    /\ ChartIdle
    /\ MonitorIdle
    /\ DiskIdle

BrowseFrame ==
    UNCHANGED <<h, pushedH, Data, Capacity, pushed, ret, args, out, dayRows,
                mon, timers, polls, now, ds, files, zone, writes, issued, ticksDone,
                host>>

DoKeyLeft == vm' = KeyLeft(vm) /\ BrowseFrame
DoKeyRight == vm' = KeyRight(vm) /\ BrowseFrame
DoKeyShiftLeft == vm' = KeyShiftLeft(vm) /\ BrowseFrame
DoKeyShiftRight == vm' = KeyShiftRight(vm) /\ BrowseFrame
DoKeyHome == vm' = KeyHome(vm) /\ BrowseFrame
DoKeyEnd == vm' = KeyEnd(vm) /\ BrowseFrame
DoKeyOlderDay == vm' \in KeyOlderDay(vm, dayRows) /\ BrowseFrame
DoKeyNewerDay == vm' \in KeyNewerDay(vm, dayRows) /\ BrowseFrame

NextBrowse ==
    \/ DoKeyLeft
    \/ DoKeyRight
    \/ DoKeyShiftLeft
    \/ DoKeyShiftRight
    \/ DoKeyHome
    \/ DoKeyEnd
    \/ DoKeyOlderDay
    \/ DoKeyNewerDay

SpecBrowse == InitBrowse /\ [][NextBrowse]_vars

(***************************************************************************)
(* SpecDisk: a DiskStore written to and closed, then one file loaded.      *)
(***************************************************************************)

\* instants of the evening of the first day and around the transition;
\* 88200 and 91800 show the same wall clock in DstZone
DiskTimes == {79000, 86000, 88200, 91800}

\* the last label holds a line break, a carriage return and a line feed
DiskBatches ==
    { <<>>,
      <<Reading("coretemp", "Core 0", 450, 1010, 1150)>>,
      <<Reading("nvme", "Composite", 369, 818, 848),
        Reading("acpitz", "temp\r\n1", -5, 0, 0)>> }

DiskDates == {FormatWallDate(0), FormatWallDate(86400), FormatWallDate(172800)}

InitDisk ==
    /\ ds = NewDiskStore
    /\ files = EmptyMap
    /\ zone \in {FixedZone, DstZone}
    /\ writes = <<>>
    /\ ret = NoCall
    /\ BufferIdle
    /\ StoreIdle
    /\ ChartIdle
    /\ BrowseIdle
    /\ MonitorIdle

DiskFrame ==
    UNCHANGED <<h, pushedH, Data, Capacity, pushed, args, out, vm, dayRows, mon,
                timers, polls, now, zone, issued, ticksDone, host>>

DoWrite(readings, t) ==
    /\ ret = NoCall
    /\ Len(writes) < MaxWrites
    /\ ds' = Write(ds, files, zone, readings, t).ds
    /\ files' = Write(ds, files, zone, readings, t).files
    /\ writes' = Append(writes, [readings |-> readings, t |-> t])
    /\ UNCHANGED ret
    /\ DiskFrame

DoClose ==
    /\ ret = NoCall
    /\ ds' = Close(ds)
    /\ UNCHANGED <<files, writes, ret>>
    /\ DiskFrame

DoLoadFile(day) ==
    /\ ret = NoCall
    /\ ret' = [op |-> "LoadFile", day |-> day, val |-> LoadFile(files, zone, day)]
    /\ UNCHANGED <<ds, files, writes>>
    /\ DiskFrame

NextDisk ==
    \/ \E readings \in DiskBatches, t \in DiskTimes : DoWrite(readings, t)
    \/ DoClose
    \/ \E day \in DiskDates : DoLoadFile(day)

SpecDisk == InitDisk /\ [][NextDisk]_vars

(***************************************************************************)
(* SpecMonitor: the live monitor from Init on: ticks, polls that finish    *)
(* and whose messages are delivered, the pause key, quit, and the clock.   *)
(* A finished poll's message waits until the host hands it to Update;      *)
(* messages of polls that run at the same time wait side by side.          *)
(***************************************************************************)
\* a batch that reads one sensor so often that its buffer is one point
\* short of its capacity, each time a tenth of a degree warmer
LongBatch ==
    [i \in 1 .. historySize - 1 |-> Reading("coretemp", "Core 0", 300 + i, 1010, 1150)]

\* the poll that reads the long batch: the one Init issues
LongPoll == InitCommands.polls

\* a batch of one sensor, a batch of two new sensors listed against the sort
\* order, and a batch that reads one sensor twice
MonitorBatches ==
    { <<Reading("coretemp", "Core 0", 450, 1010, 1150)>>,
      <<Reading("nvme", "Composite", 369, 818, 848),
        Reading("amdgpu", "edge", 520, 0, 0)>>,
      <<Reading("coretemp", "Core 0", 460, 1010, 1150),
        Reading("coretemp", "Core 0", 470, 1010, 1150)>> }

InitMonitor ==
    /\ \E hasStore \in BOOLEAN :
          /\ mon = NewModel(hasStore)
          /\ ds = IF hasStore THEN NewDiskStore ELSE NoCall
    /\ Data = EmptyMap
    /\ Capacity = historySize
    /\ files = EmptyMap
    /\ zone = FixedZone
    /\ writes = <<>>
    /\ timers = InitCommands.timers
    /\ polls = {PollRunning(1)}
    /\ issued = InitCommands.polls
    /\ ticksDone = 0
    /\ host = "running"
    /\ now = 50398
    /\ pushed = [k \in Keys |-> <<>>]
    /\ ret = NoCall
    /\ BufferIdle
    /\ ChartIdle
    /\ BrowseIdle

MonitorFrame == UNCHANGED <<h, pushedH, Capacity, pushed, ret, args, out, vm, dayRows, zone>>

\* a timer fires and its tickMsg is processed
DoTick ==
    /\ host # "ended"
    /\ timers > 0
    /\ ticksDone < MaxTicks
    /\ issued + TickCommands(mon).polls <= MaxPolls
    /\ ticksDone' = ticksDone + 1
    /\ timers' = timers - 1 + TickCommands(mon).timers
    /\ issued' = issued + TickCommands(mon).polls
    /\ polls' = IF TickCommands(mon).polls = 1
                THEN polls \cup {PollRunning(issued + 1)} ELSE polls
    /\ UNCHANGED <<mon, Data, ds, files, writes, now, host>>
    /\ MonitorFrame

\* sensor.ReadAll of a running poll returns and pollSensors builds its
\* message
DoPollReturns(p, failed, readings) ==
    /\ p \in polls
    /\ p.st = "running"
    /\ polls' = (polls \ {p}) \cup {PollResult(p.id, failed, readings, now)}
    /\ UNCHANGED <<mon, Data, ds, files, writes, now, timers, issued, ticksDone, host>>
    /\ MonitorFrame

\* a sensorDataMsg is processed
DoSensorData(p) ==
    /\ host # "ended"
    /\ p \in polls
    /\ p.st = "data"
    /\ polls' = polls \ {p}
    /\ mon' = UpdateData(mon, p.readings, p.time)
    /\ Data' = RecordAll(Data, Capacity, p.readings, p.time, 1)
    /\ IF mon.hasStore
       THEN /\ \E w \in {Write(ds, files, zone, p.readings, p.time)} :
                  ds' = w.ds /\ files' = w.files
            /\ writes' = Append(writes, [readings |-> p.readings, t |-> p.time])
       ELSE UNCHANGED <<ds, files, writes>>
    /\ UNCHANGED <<now, timers, issued, ticksDone, host>>
    /\ MonitorFrame

\* an errMsg is processed
DoErr(p) ==
    /\ host # "ended"
    /\ p \in polls
    /\ p.st = "err"
    /\ polls' = polls \ {p}
    /\ mon' = UpdateErr(mon)
    /\ timers' = timers + ErrCommands.timers
    /\ UNCHANGED <<Data, ds, files, writes, now, issued, ticksDone, host>>
    /\ MonitorFrame

\* the key " " or "p" is processed
DoPause ==
    /\ host # "ended"
    /\ mon' = UpdatePause(mon)
    /\ UNCHANGED <<Data, ds, files, writes, now, timers, polls, issued, ticksDone, host>>
    /\ MonitorFrame

\* a scroll key is processed
DoScroll(key) ==
    /\ host # "ended"
    /\ UpdateScroll(mon, key).scroll <= MaxScroll
    /\ mon' = UpdateScroll(mon, key)
    /\ UNCHANGED <<Data, ds, files, writes, now, timers, polls, issued, ticksDone, host>>
    /\ MonitorFrame

\* the key "q" or "ctrl+c" is processed: the store is closed and tea.Quit
\* returned; the messages that reach Update before the quit message are
\* handled as ever
DoQuit ==
    /\ host # "ended"
    /\ ds' = IF mon.hasStore THEN Close(ds) ELSE ds
    /\ host' = "quitting"
    /\ UNCHANGED <<mon, Data, files, writes, now, timers, polls, issued, ticksDone>>
    /\ MonitorFrame

\* the host receives the quit message of tea.Quit and ends the program
DoQuitMsg ==
    /\ host = "quitting"
    /\ host' = "ended"
    /\ UNCHANGED <<mon, Data, ds, files, writes, now, timers, polls, issued, ticksDone>>
    /\ MonitorFrame

\* the wall clock moves on
DoClock ==
    /\ now < 50398 + MaxClock
    /\ now' = now + 1
    /\ UNCHANGED <<mon, Data, ds, files, writes, timers, polls, issued, ticksDone, host>>
    /\ MonitorFrame

NextMonitor ==
    \/ DoTick
    \/ \E p \in polls : \E readings \in MonitorBatches : DoPollReturns(p, FALSE, readings)
    \/ \E p \in polls : p.id = LongPoll /\ DoPollReturns(p, FALSE, LongBatch)
    \/ \E p \in polls : DoPollReturns(p, TRUE, <<>>)
    \/ \E p \in polls : DoSensorData(p)
    \/ \E p \in polls : DoErr(p)
    \/ DoPause
    \/ \E key \in {"up", "down", "home"} : DoScroll(key)
    \/ DoQuit
    \/ DoQuitMsg
    \/ DoClock

SpecMonitor == InitMonitor /\ [][NextMonitor]_vars

(***************************************************************************)
(* What the pushes made so far should have left behind, computed from the  *)
(* ghost record of the pushes and not from Push.                           *)
(***************************************************************************)
\* the last k elements of seq
LastK(seq, k) == SubSeq(seq, Len(seq) - k + 1, Len(seq))

TempsOf(seq) == {seq[i].Temp : i \in 1 .. Len(seq)}
MinOf(seq) == CHOOSE v \in TempsOf(seq) : \A w \in TempsOf(seq) : v <= w
MaxOf(seq) == CHOOSE v \in TempsOf(seq) : \A w \in TempsOf(seq) : v >= w

\* the window a buffer of capacity c retains after the pushes seq
Window(seq, c) == LastK(seq, MinInt(Len(seq), c))

\* the whole buffer after the non-empty sequence of pushes seq
ExpectedBuffer(seq, c) ==
    [Points |-> Window(seq, c), Max |-> c, Min |-> MinOf(seq), Peak |-> MaxOf(seq)]

(***************************************************************************)
(* Claims about the ring buffer (SpecHistory).                             *)
(***************************************************************************)
\* C1: after k pushes into a fresh buffer of capacity c >= 1 the buffer
\* holds exactly min(k, c) points, and they are the last min(k, c) points
\* pushed (value and timestamp), oldest first.
C1_CapacityInvariant ==
    LET k == Len(pushedH)
        m == MinInt(k, h.Max)
    IN  /\ Len(h.Points) = m
        /\ \A i \in 1 .. m : h.Points[i] = pushedH[k - m + i]

\* C1 witness: a buffer of capacity 2 that has evicted two points.
C1_Witness ==
    /\ h.Max = 2
    /\ Len(pushedH) = 4
    /\ Len(h.Points) = 2
    /\ pushedH[1] # pushedH[3]

\* C2: after a non-empty sequence of pushes Min is the minimum and Peak the
\* maximum of every value ever pushed, evicted ones included; across a step
\* Min never increases and Peak never decreases.
C2_LifetimeExtrema ==
    /\ [](pushedH # <<>> => (h.Min = MinOf(pushedH) /\ h.Peak = MaxOf(pushedH)))
    /\ [][h'.Min <= h.Min /\ h'.Peak >= h.Peak]_vars

\* C2 witness: both the lifetime minimum and the lifetime maximum have
\* been evicted from the window.
C2_Witness ==
    /\ Len(pushedH) > h.Max
    /\ h.Points # <<>>
    /\ \A i \in 1 .. Len(h.Points) :
          h.Min < h.Points[i].Temp /\ h.Points[i].Temp < h.Peak

\* The n most recent points of the buffer, oldest first.
C3_LastNExpected(n) ==
    LET len == Len(h.Points)
        m == IF n <= 0 THEN 0 ELSE MinInt(n, len)
    IN  [i \in 1 .. m |-> h.Points[len - m + i]]

\* C3: LastN(n) and LastNPoints(n) return the most recent
\* min(n, len(points)) points, oldest first (LastN their values), the last
\* one being the point pushed last; for n <= 0 or an empty buffer the result
\* is empty; neither call changes the buffer.
C3_LastN ==
    /\ [](ret.op = "LastNPoints" =>
            /\ ret.val = C3_LastNExpected(ret.n)
            /\ ret.val # <<>> => ret.val[Len(ret.val)] = pushedH[Len(pushedH)])
    /\ [](ret.op = "LastN" =>
            /\ Len(ret.val) = Len(C3_LastNExpected(ret.n))
            /\ \A i \in 1 .. Len(ret.val) :
                  ret.val[i] = C3_LastNExpected(ret.n)[i].Temp)
    /\ [][ret'.op \in {"LastN", "LastNPoints"} => h' = h]_vars

\* C3 witness: LastNPoints(1) on a buffer holding two different points,
\* after an eviction.
C3_Witness ==
    /\ ret.op = "LastNPoints"
    /\ ret.n = 1
    /\ Len(ret.val) = 1
    /\ Len(h.Points) = 2
    /\ h.Points[1] # h.Points[2]
    /\ Len(pushedH) > h.Max

\* The float64 sum of the temperatures of pts added to acc, from the first
\* point to the last.
RECURSIVE C4_SumFrom(_, _)
C4_SumFrom(acc, pts) ==
    IF pts = <<>> THEN acc
    ELSE C4_SumFrom(FAdd(acc, F64(Head(pts).Temp)), Tail(pts))

\* The float64 sum of the window divided by the number of its points.
C4_FloatMean(win) == FDiv(C4_SumFrom(Float64Zero, win), FromInt(Len(win)))

\* The float64 next above and next below a positive float64.
C4_Above(f) ==
    IF f.m = <<2 ^ 9 - 1, Limb - 1, Limb - 1>>
    THEN [f EXCEPT !.m = <<2 ^ 8, 0, 0>>, !.e = f.e + 1]
    ELSE [f EXCEPT !.m = WAdd(f.m, WOne)]
C4_Below(f) ==
    IF f.m = <<2 ^ 8, 0, 0>>
    THEN [f EXCEPT !.m = <<2 ^ 9 - 1, Limb - 1, Limb - 1>>, !.e = f.e - 1]
    ELSE [f EXCEPT !.m = WSub(f.m, WOne)]

\* n times the positive float64 f, exact, counted in units of 2^e0.
C4_Units(f, n, e0) == WShl(WTimes(f.m, n), f.e - e0)

\* The sum of the positive temperatures of win, exact, in units of 2^e0.
RECURSIVE C4_ExactSum(_, _)
C4_ExactSum(win, e0) ==
    IF win = <<>> THEN WZero
    ELSE WAdd(C4_Units(F64(Head(win).Temp), 1, e0), C4_ExactSum(Tail(win), e0))

\* How far the float64 f lies from the exact mean of win, times Len(win).
C4_Distance(f, sum, n, e0) ==
    IF WLess(C4_Units(f, n, e0), sum) THEN WSub(sum, C4_Units(f, n, e0))
    ELSE WSub(C4_Units(f, n, e0), sum)

\* f is a float64 nearest to the exact arithmetic mean of the positive
\* temperatures of win: neither the float64 next above it nor the one next
\* below it lies nearer to the mean.
C4_NearestToMean(f, win) ==
    LET exps == {F64(win[i].Temp).e : i \in 1 .. Len(win)}
        e0 == (CHOOSE e \in exps : \A x \in exps : e <= x) - 1
        n == Len(win)
    IN  /\ ~FIsZero(f) /\ ~f.neg /\ f.e > e0
        /\ ValueOf(C4_ExactSum(win, e0),
                   LAMBDA sum :
                       /\ ~WLess(C4_Distance(C4_Above(f), sum, n, e0),
                                 C4_Distance(f, sum, n, e0))
                       /\ ~WLess(C4_Distance(C4_Below(f), sum, n, e0),
                                 C4_Distance(f, sum, n, e0)))

\* C4 as claimed: Avg returns the arithmetic mean of exactly the points
\* retained in the window (evicted values do not count), the float64
\* nearest to it, and 0 for an empty buffer.
C4_AvgExactMean ==
    ret.op = "Avg" =>
        LET win == Window(pushedH, h.Max)
        IN  IF win = <<>> THEN ret.val = Float64Zero
            ELSE C4_NearestToMean(ret.val, win)

\* C4 as amended: Avg returns the mean of exactly the points retained in
\* the window (evicted values do not count) as float64 arithmetic gives it:
\* the values added one by one from the oldest to the newest, starting at 0,
\* each addition rounded to the nearest float64, and the sum divided by the
\* number of points, rounded again; it can differ from the float64 nearest
\* to the exact mean (0.1, 0.1, 0.1 gives 0.10000000000000002). It returns 0
\* for an empty buffer.
C4_AvgOfWindow ==
    ret.op = "Avg" =>
        LET win == Window(pushedH, h.Max)
        IN  IF win = <<>> THEN ret.val = Float64Zero
            ELSE ret.val = C4_FloatMean(win)

\* C4 witness: Avg of a window of three values 0.1 after an eviction; it
\* differs from the mean of all the values pushed and lies above 0.1, the
\* exact mean of the window.
C4_Witness ==
    /\ ret.op = "Avg"
    /\ Len(pushedH) > h.Max
    /\ Len(h.Points) = 3
    /\ \A i \in 1 .. 3 : h.Points[i].Temp = 1
    /\ ret.val # C4_FloatMean(pushedH)
    /\ ret.val = C4_Above(F64(1))

(***************************************************************************)
(* Claims about the store (SpecStore).                                     *)
(***************************************************************************)
\* The store against the ghost record of the Record calls.
C5_StoreState ==
    /\ DOMAIN Data = {k \in Keys : pushed[k] # <<>>}
    /\ \A k \in DOMAIN Data : Data[k] = ExpectedBuffer(pushed[k], Capacity)
    /\ ret.op = "Get" =>
          ret.val = IF pushed[ret.key] = <<>> THEN Nil
                    ELSE Ptr(ExpectedBuffer(pushed[ret.key], Capacity))

\* What one call may change.
C5_StoreStep ==
    /\ DOMAIN Data \subseteq DOMAIN Data'
    /\ Capacity' = Capacity
    /\ ret'.op = "Record" =>
          \A k \in DOMAIN Data : k # ret'.key => Data'[k] = Data[k]
    /\ ret'.op = "Get" => Data' = Data

\* C5: a buffer exists exactly for the keys recorded at least once; it has
\* the store's capacity, is never removed or replaced, and holds the effect
\* of exactly its own key's pushes in order; Record(key) leaves every other
\* key's buffer unchanged; Get changes nothing, and Get of a key never
\* recorded returns nil.
C5_StoreFrame == []C5_StoreState /\ [][C5_StoreStep]_vars

\* C5 witness: Get of a key never recorded, after the other key's buffer
\* has been recorded into beyond its capacity.
C5_Witness ==
    /\ ret.op = "Get"
    /\ ret.val = Nil
    /\ ret.key \notin DOMAIN Data
    /\ \E k \in DOMAIN Data : Len(pushed[k]) > Capacity

(***************************************************************************)
(* Claims about the colour tiers and the sparkline (SpecChart).            *)
(***************************************************************************)
\* C6: the colour tier is the first match of critical (critical threshold
\* present and value >= critical), high (high threshold present and value
\* >= high), warn (high threshold present and value >= 0.85*high), else ok;
\* a value on a boundary belongs to the higher tier: with high 100 and
\* critical 120, 99.9 is warn, 100 and 119.9 are high, 120 is critical, and
\* with no thresholds every value is ok.
C6_ColorTier ==
    out.op = "TempColor" =>
        LET v == args.v
            isCrit == args.hasCrit /\ v >= args.crit
            isHigh == args.hasHigh /\ v >= args.high
            isWarn == args.hasHigh /\ 100 * v >= 85 * args.high
            both == args.hasHigh /\ args.hasCrit /\ args.high = 1000 /\ args.crit = 1200
        IN  /\ (out.val = "196") <=> isCrit
            /\ (out.val = "208") <=> (~isCrit /\ isHigh)
            /\ (out.val = "220") <=> (~isCrit /\ ~isHigh /\ isWarn)
            /\ (out.val = "78") <=> (~isCrit /\ ~isHigh /\ ~isWarn)
            /\ (both /\ v = 999) => out.val = "220"
            /\ (both /\ v \in {1000, 1199}) => out.val = "208"
            /\ (both /\ v = 1200) => out.val = "196"
            /\ (both /\ v = 850) => out.val = "220"
            /\ (both /\ v = 849) => out.val = "78"
            /\ (~args.hasHigh /\ ~args.hasCrit) => out.val = "78"

\* C6 witness: the value 100.0 classified against high 100.0 and critical
\* 120.0, both present.
C6_Witness ==
    /\ out.op = "TempColor"
    /\ args.v = 1000 /\ args.high = 1000 /\ args.crit = 1200
    /\ args.hasHigh /\ args.hasCrit
    /\ out.val = "208"

\* The rendered suffix of a sparkline call and the columns before it.
C_Kept == MinInt(Len(args.points), MaxInt(args.width, 0))
C_Pad == args.width - C_Kept
C_Suffix == LastK(args.points, C_Kept)
C_Rendered == out.op = "RenderSparklinePoints" /\ args.width > 0

\* C7: for width > 0 the sparkline has exactly width glyphs, whatever the
\* points, range and thresholds; for width <= 0 it is empty.
C7_RenderWidth ==
    out.op = "RenderSparklinePoints" =>
        Len(out.val) = IF args.width > 0 THEN args.width ELSE 0

\* C7 witness: more points than columns, with and without timestamps.
C7_Witness ==
    /\ C_Rendered
    /\ Len(args.points) > args.width
    /\ \E i, j \in 1 .. Len(args.points) :
          IsZero(args.points[i].Time) /\ ~IsZero(args.points[j].Time)
    /\ Len(out.val) = args.width

\* C8: for width > 0 and n points the sparkline is max(0, width - n)
\* no-data glyphs followed by one glyph for each of the last min(n, width)
\* points in order, point i of the kept suffix at column (width - kept) + i;
\* the points before the kept suffix have no influence, and an empty input
\* gives width no-data glyphs.
C8_RightAligned ==
    C_Rendered =>
        /\ C_Pad = MaxInt(0, args.width - Len(args.points))
        /\ Len(out.val) = C_Pad + C_Kept
        /\ \A c \in 1 .. C_Pad : out.val[c] = NoDataGlyph
        /\ \A i \in 1 .. C_Kept :
              out.val[C_Pad + i] \in
                  { TickGlyph,
                    ValueGlyph(C_Suffix[i], args.rangeMin, args.rangeMax,
                               args.high, args.crit, args.hasHigh, args.hasCrit) }
        /\ out.val = RenderSparklinePoints(C_Suffix, args.width, args.rangeMin,
                         args.rangeMax, args.high, args.crit, args.hasHigh,
                         args.hasCrit)
        /\ args.points = <<>> => out.val = [c \in 1 .. args.width |-> NoDataGlyph]

\* C8 witness: three points into two columns; the dropped point lies in
\* another minute than the first kept one and has another value.
C8_Witness ==
    /\ C_Rendered
    /\ args.width = 2
    /\ Len(args.points) = 3
    /\ args.points[1].Time = 50399
    /\ args.points[2].Time = 50401
    /\ args.points[1].Temp # args.points[2].Temp
    /\ out.val[1].ch # TickGlyph.ch

\* trunc(7 * clamp((temp - rangeMin)/span, 0, 1)) of the numbers the tenths
\* name, exact, stated by its bounds.
C9_Trunc(temp, rangeMin, rangeMax) ==
    LET span == IF rangeMax - rangeMin <= 0 THEN 10 ELSE rangeMax - rangeMin
        d == temp - rangeMin
        num == IF d < 0 THEN 0 ELSE IF d > span THEN span ELSE d
    IN  CHOOSE k \in 0 .. 7 : k * span <= 7 * num /\ (7 * num < (k + 1) * span \/ k = 7)

\* The position of an intensity glyph among sparkBlocks, from 0.
C9_Level(g) == CHOOSE k \in 0 .. 7 : sparkBlocks[k + 1] = g.ch

\* 7 * clamp((temp - rangeMin)/span, 0, 1) in float64: the difference, the
\* quotient and the product each rounded to the nearest float64.
C9_Scaled(temp, rangeMin, rangeMax) ==
    LET span == IF rangeMax <= rangeMin THEN FromInt(1)
                ELSE FSub(F64(rangeMax), F64(rangeMin))
        scaled(norm) == IF FLess(FromInt(1), norm) THEN FromInt(7)
                        ELSE FTimesInt(7, norm)
    IN  IF temp <= rangeMin THEN Float64Zero
        ELSE ValueOf(FDiv(FSub(F64(temp), F64(rangeMin)), span), scaled)

\* The whole number k of 0..7 with k <= x < k + 1, 7 for an x beyond.
C9_Whole(x) ==
    CHOOSE k \in 0 .. 7 : ~FLess(x, FromInt(k)) /\ (k = 7 \/ FLess(x, FromInt(k + 1)))

\* trunc(7 * clamp((temp - rangeMin)/span, 0, 1)) in float64.
C9_TruncFloat(temp, rangeMin, rangeMax) ==
    ValueOf(C9_Scaled(temp, rangeMin, rangeMax), C9_Whole)

\* The levels of the intensity glyphs drawn: in 0..7, each level(i), not
\* decreasing when the value grows, and 6 for 100 in the range [20, 110].
C9_Levels(level(_)) ==
    C_Rendered =>
        LET blocks == {i \in 1 .. C_Kept : out.val[C_Pad + i].ch # TickGlyph.ch}
        IN  /\ \A i \in blocks :
                  /\ \E k \in 0 .. 7 : sparkBlocks[k + 1] = out.val[C_Pad + i].ch
                  /\ C9_Level(out.val[C_Pad + i]) = level(i)
                  /\ (args.rangeMin = 200 /\ args.rangeMax = 1100
                         /\ C_Suffix[i].Temp = 1000) =>
                        C9_Level(out.val[C_Pad + i]) = 6
            /\ \A i, j \in blocks :
                  C_Suffix[i].Temp <= C_Suffix[j].Temp =>
                      C9_Level(out.val[C_Pad + i]) <= C9_Level(out.val[C_Pad + j])

\* C9 as claimed: the intensity glyph of a point that is not a tick has the
\* index trunc(7 * clamp((value - rangeMin)/span, 0, 1)), span = rangeMax -
\* rangeMin or 1 when that is <= 0; the index is in 0..7, does not decrease
\* when the value grows, and is 6 for the value 100 in the range [20, 110].
C9_QuantIndexExact ==
    C9_Levels(LAMBDA i : C9_Trunc(C_Suffix[i].Temp, args.rangeMin, args.rangeMax))

\* C9 as amended: the intensity glyph of a point that is not a tick has the
\* index trunc(7 * clamp((value - rangeMin)/span, 0, 1)) as float64
\* arithmetic gives it, the difference, the quotient and the product each
\* rounded to the nearest float64, which can be one less than the index of
\* the exact quotient (45.3 in the range [30.0, 65.7] has index 2, the exact
\* quotient gives 3); span = rangeMax - rangeMin or 1 when that is <= 0; the
\* index is in 0..7, does not decrease when the value grows, and is 6 for
\* the value 100 in the range [20, 110].
C9_QuantIndex ==
    C9_Levels(LAMBDA i : C9_TruncFloat(C_Suffix[i].Temp, args.rangeMin, args.rangeMax))

\* C9 witness: the value 45.3 drawn in the range [30.0, 65.7] as level 2,
\* next to a higher value drawn higher.
C9_Witness ==
    /\ C_Rendered
    /\ args.rangeMin = 300 /\ args.rangeMax = 657
    /\ C_Kept = 2
    /\ C_Suffix[1].Temp = 453 /\ C_Suffix[2].Temp = 700
    /\ out.val[C_Pad + 1].ch = sparkBlocks[3]
    /\ out.val[C_Pad + 2].ch = sparkBlocks[8]
    /\ C9_Trunc(453, 300, 657) = 3

\* C10: a rendered point that carries a timestamp whose seconds field is 0
\* is drawn as the tick glyph, never as an intensity glyph, whatever its
\* value, the range and the thresholds.
C10_TickPrecedence ==
    C_Rendered =>
        \A i \in 1 .. C_Kept :
            (~IsZero(C_Suffix[i].Time) /\ Second(zone, C_Suffix[i].Time) = 0) =>
                out.val[C_Pad + i] = TickGlyph

\* C10 witness: a critical value stamped 14:00:00 is the first rendered
\* point and is drawn as a tick.
C10_Witness ==
    /\ C_Rendered
    /\ C_Kept >= 1
    /\ C_Suffix[1] = [Temp |-> 1000, Time |-> 50400]
    /\ args.hasCrit
    /\ out.val[C_Pad + 1] = TickGlyph

\* C11: a rendered point is a tick if and only if it carries a timestamp
\* and either its seconds field is zero or the immediately preceding
\* rendered point carries a timestamp of another calendar minute (the two
\* timestamps truncated to the minute differ); the first rendered point has
\* no predecessor, a point without a timestamp is never a tick, and the
\* value-only RenderSparkline never draws a tick glyph.
C11_TickIffCalendarMinute ==
    /\ C_Rendered =>
          \A i \in 1 .. C_Kept :
              (out.val[C_Pad + i] = TickGlyph) <=>
                  /\ ~IsZero(C_Suffix[i].Time)
                  /\ \/ Second(zone, C_Suffix[i].Time) = 0
                     \/ /\ i > 1
                        /\ ~IsZero(C_Suffix[i - 1].Time)
                        /\ C_Suffix[i].Time \div 60 # C_Suffix[i - 1].Time \div 60
    /\ out.op = "RenderSparkline" =>
          \A c \in 1 .. Len(out.val) : out.val[c].ch # TickGlyph.ch

(***************************************************************************)
(* Claims about the timeline (SpecChart).                                  *)
(***************************************************************************)
T_Done == out.op = "RenderTimeline"
T_Line == out.val.line
T_Ticks == out.val.ticks
T_Placed == out.val.placed

\* Column c (from 1) lies under a placed label.
T_Covered(c) == \E k \in 1 .. Len(T_Placed) : T_Placed[k].start < c /\ c <= T_Placed[k].end

\* The line has width columns, blank wherever no label lies.
T_FullLine ==
    /\ Len(T_Line) = args.width
    /\ \A c \in 1 .. args.width : ~T_Covered(c) => T_Line[c] = " "

\* C12 as claimed: for every width > 0 and every point sequence, an empty
\* one included, RenderTimeline returns a line of exactly width columns
\* holding a space in every column not covered by a label.
C12_LineWidthAnyPoints ==
    (T_Done /\ args.width > 0) => T_FullLine

\* C12 as amended: for every width > 0 and every non-empty point sequence
\* (one without any tick included) RenderTimeline returns a line of exactly
\* width columns holding a space in every column not covered by a label;
\* for an empty point sequence it returns the empty string.
C12_LineWidth ==
    (T_Done /\ args.width > 0) =>
        IF args.points = <<>> THEN T_Line = <<>> ELSE T_FullLine

\* C12 witness: a line of 14 columns with a label on it and a blank first
\* column.
C12_Witness ==
    /\ T_Done
    /\ args.width = 14
    /\ Len(T_Placed) = 1
    /\ T_Line[1] = " "
    /\ Len(T_Line) = 14

\* C13: the labels placed never overlap: the column ranges of any two are
\* disjoint, every label starts at a column >= 0 and ends at start + 5 <=
\* width, and the line shows every placed label whole.
C13_NoOverlap ==
    T_Done =>
        /\ \A k \in 1 .. Len(T_Placed) :
              /\ T_Placed[k].start >= 0
              /\ T_Placed[k].end = T_Placed[k].start + 5
              /\ T_Placed[k].end <= args.width
              /\ \A j \in 1 .. 5 : T_Line[T_Placed[k].start + j] = T_Placed[k].label[j]
        /\ \A k, m \in 1 .. Len(T_Placed) :
              k # m => \/ T_Placed[k].end <= T_Placed[m].start
                       \/ T_Placed[m].end <= T_Placed[k].start

\* C13 witness: two labels on one line, after a candidate between them was
\* turned down.
C13_Witness ==
    /\ T_Done
    /\ Len(T_Placed) = 2
    /\ Len(T_Ticks) > 2

\* The placement the claim describes: ticks in order, a candidate turned
\* down only when it passes the right edge or starts fewer than 2 blank
\* columns after the end of the label placed before it.
RECURSIVE C14_Greedy(_, _, _)
C14_Greedy(ticks, width, placed) ==
    IF ticks = <<>> THEN placed
    ELSE LET t == Head(ticks)
             start == IF t.pos - 2 < 0 THEN 0 ELSE t.pos - 2
             end == start + 5
             fits == end <= width
             gap == \/ placed = <<>>
                    \/ start >= placed[Len(placed)].end + 2
         IN  C14_Greedy(Tail(ticks), width,
                 IF fits /\ gap
                 THEN Append(placed, [start |-> start, end |-> end,
                                      pos |-> t.pos, label |-> t.label])
                 ELSE placed)

\* C14: labels are considered in tick order, earliest first; a candidate is
\* rejected only when its 5-column window would pass the right edge or when
\* it starts fewer than 2 blank columns after the end of the previously
\* placed label; so the earliest tick whose label fits within width is
\* always labelled, and a later one exactly when it keeps the gap.
C14_EarliestFirst ==
    (T_Done /\ args.width > 0 /\ args.points # <<>>) =>
        /\ T_Placed = C14_Greedy(T_Ticks, args.width, <<>>)
        /\ \A k \in 1 .. Len(T_Ticks) :
              LET fits(j) == (IF T_Ticks[j].pos - 2 < 0 THEN 0 ELSE T_Ticks[j].pos - 2) + 5
                                 <= args.width
              IN  (fits(k) /\ \A j \in 1 .. (k - 1) : ~fits(j)) =>
                      \E n \in 1 .. Len(T_Placed) : T_Placed[n].pos = T_Ticks[k].pos

\* C15: for a non-empty point sequence and width > 0 the columns where
\* RenderSparklinePoints draws a tick glyph are the tick positions
\* RenderTimeline collects, so every placed label belongs to a column
\* showing a tick glyph and covers that column.
C15_SameTicks ==
    (T_Done /\ args.width > 0 /\ args.points # <<>>) =>
        LET spark == RenderSparklinePoints(args.points, args.width,
                         200, 1100, 800, 1000, TRUE, TRUE)
            sparkCols == {c \in 1 .. Len(spark) : spark[c] = TickGlyph}
            lineCols == {T_Ticks[k].pos + 1 : k \in 1 .. Len(T_Ticks)}
        IN  /\ sparkCols = lineCols
            /\ \A k \in 1 .. Len(T_Placed) :
                  /\ (T_Placed[k].pos + 1) \in sparkCols
                  /\ T_Placed[k].start <= T_Placed[k].pos
                  /\ T_Placed[k].pos < T_Placed[k].end

\* C15 witness: a run with unstamped points in it, more ticks than labels,
\* and a label placed.
C15_Witness ==
    /\ T_Done
    /\ Len(T_Placed) >= 1
    /\ Len(T_Ticks) > Len(T_Placed)
    /\ \E i \in 1 .. Len(args.points) : IsZero(args.points[i].Time)
    /\ Len(args.points) > args.width

(***************************************************************************)
(* Claims about the threshold scale (SpecChart).                           *)
(***************************************************************************)
S_Done == out.op = "RenderThresholdScale" /\ args.width > 0
S_Span == IF args.rangeMax - args.rangeMin <= 0 THEN 10 ELSE args.rangeMax - args.rangeMin
S_Num(x) == (args.width - 1) * (x - args.rangeMin)

\* round and trunc of S_Num(x) / S_Span, the quotient of the numbers the
\* tenths name, exact
S_Round(x) ==
    IF S_Num(x) >= 0 THEN (2 * S_Num(x) + S_Span) \div (2 * S_Span)
    ELSE -((2 * (-S_Num(x)) + S_Span) \div (2 * S_Span))
S_TruncExact(x) ==
    IF S_Num(x) >= 0 THEN S_Num(x) \div S_Span ELSE -((-S_Num(x)) \div S_Span)

\* trunc of float64(width-1) * (x - rangeMin) / span in float64: the
\* difference, the product and the quotient each rounded to the nearest
\* float64
S_SpanFloat ==
    IF args.rangeMax <= args.rangeMin THEN FromInt(1)
    ELSE FSub(F64(args.rangeMax), F64(args.rangeMin))
S_Trunc(x) ==
    FTrunc(FDiv(FTimesInt(args.width - 1, FSub(F64(x), F64(args.rangeMin))),
                S_SpanFloat))

S_Clamp(pos) == IF pos < 0 THEN 0 ELSE IF pos >= args.width THEN args.width - 1 ELSE pos

\* The column a marker must be at (-1: no marker) when col(x) is the column
\* of the value x.
S_MarkerAt(has, threshold, col(_)) ==
    IF has /\ threshold > args.rangeMin /\ col(threshold) >= 0 /\ col(threshold) < args.width
    THEN col(threshold) ELSE -1

\* C16 as claimed: a threshold marker is placed at column
\* round((width-1) * (threshold - rangeMin) / span) (span 1 when <= 0), and
\* only if the threshold is present, is > rangeMin and the column lies in
\* [0, width); the current-value column is the same formula clamped into
\* [0, width-1].
C16_MarkerColumnRounded ==
    S_Done =>
        /\ out.val.highAt = S_MarkerAt(args.hasHigh, args.high, S_Round)
        /\ out.val.critAt = S_MarkerAt(args.hasCrit, args.crit, S_Round)
        /\ out.val.curPos = S_Clamp(S_Round(args.current))

\* C16 as amended: a threshold marker is placed at column
\* trunc((width-1) * (threshold - rangeMin) / span), truncated towards zero
\* and computed in float64, the difference, the product and the quotient
\* each rounded to the nearest float64, which can be one less than the
\* truncated exact quotient (43.9 in the range [20.0, 43.9] at width 30 is
\* at column 28, not 29); span is 1 when <= 0; the marker is placed only if
\* the threshold is present, is > rangeMin and the column lies in
\* [0, width); the current-value column is the same formula clamped into
\* [0, width-1].
C16_MarkerColumn ==
    S_Done =>
        /\ out.val.highAt = S_MarkerAt(args.hasHigh, args.high, S_Trunc)
        /\ out.val.critAt = S_MarkerAt(args.hasCrit, args.crit, S_Trunc)
        /\ out.val.curPos = S_Clamp(S_Trunc(args.current))

\* C16 witness: the high marker of 43.9 in the range [20.0, 43.9] at width
\* 30, placed at column 28 where the exact quotient is 29, with the current
\* value left of the range.
C16_Witness ==
    /\ S_Done
    /\ args.width = 30 /\ args.rangeMin = 200 /\ args.rangeMax = 439
    /\ args.hasHigh /\ args.high = 439
    /\ out.val.highAt = 28
    /\ S_TruncExact(args.high) = 29
    /\ S_Round(args.high) = 29
    /\ S_Trunc(args.current) < 0
    /\ out.val.curPos = 0

\* C17: for width > 0 the scale has exactly width glyphs and exactly one
\* current-value marker; each column shows, in this precedence, the
\* current-value marker, the critical marker, the high marker, the neutral
\* dot: a threshold marker under the current value is hidden, and a column
\* shared by the critical and the high marker shows the critical one.
C17_ScalePrecedence ==
    S_Done =>
        /\ Len(out.val.bar) = args.width
        /\ Cardinality({c \in 1 .. Len(out.val.bar) : out.val.bar[c].ch = "U+25C6"}) = 1
        /\ \A c \in 1 .. Len(out.val.bar) :
              out.val.bar[c] =
                  IF c - 1 = out.val.curPos
                  THEN Glyph("U+25C6",
                             TempColor(args.current, args.high, args.crit,
                                       args.hasHigh, args.hasCrit), TRUE)
                  ELSE IF c - 1 = out.val.critAt THEN Glyph("U+25AA", "196", FALSE)
                  ELSE IF c - 1 = out.val.highAt THEN Glyph("U+25AA", "220", FALSE)
                  ELSE Glyph("U+00B7", "236", FALSE)

\* C17 witness: the critical and the high marker share a column away from
\* the current value, and the column shows the critical marker.
C17_Witness ==
    /\ S_Done
    /\ out.val.critAt >= 0
    /\ out.val.critAt = out.val.highAt
    /\ out.val.critAt # out.val.curPos
    /\ out.val.bar[out.val.critAt + 1].fg = "196"

(***************************************************************************)
(* Claims about the viewer's window and nearest point (SpecViewer).        *)
(***************************************************************************)
W_Done == out.op = "buildSparkWindow"
W_CursorTime == args.timeSlots[args.cursorIdx + 1]
W_HasValue(t) == \E k \in 1 .. Len(args.pts) : args.pts[k].time = t
W_IsSeriesPoint(p) ==
    \E k \in 1 .. Len(args.pts) :
        args.pts[k].time = p.Time /\ args.pts[k].temp = p.Temp

\* the requested slot indices (from 0) at which the series has a value
W_Slots ==
    { j \in MaxInt(0, args.cursorIdx - args.width + 1) .. args.cursorIdx :
        W_HasValue(args.timeSlots[j + 1]) }

\* C18: for a valid cursor and width >= 1, buildSparkWindow returns exactly
\* the points (timeSlots[j], value of the series at that timestamp) for the
\* slots j in max(0, cursor-width+1) .. cursor at which the series has a
\* value, in increasing slot order: no point for a slot without a value, at
\* most width points.
C18_WindowPoints ==
    (W_Done /\ args.width >= 1 /\ Len(args.timeSlots) > 0) =>
        /\ Len(out.val) = Cardinality(W_Slots)
        /\ Len(out.val) <= args.width
        /\ \A i \in 1 .. Len(out.val) :
              /\ \E j \in W_Slots : out.val[i].Time = args.timeSlots[j + 1]
              /\ W_IsSeriesPoint(out.val[i])
        /\ \A i \in 1 .. Len(out.val) - 1 : out.val[i].Time < out.val[i + 1].Time

\* C18 witness: ten slots requested, the series missing three of them, seven
\* points returned.
C18_Witness ==
    /\ W_Done
    /\ Len(args.timeSlots) = 10
    /\ args.width = 10
    /\ args.cursorIdx = 9
    /\ Cardinality({j \in 1 .. 10 : ~W_HasValue(args.timeSlots[j])}) = 3
    /\ Len(out.val) = 7

W_CursorCase == W_Done /\ Len(args.timeSlots) > 0 /\ W_HasValue(W_CursorTime)
W_CursorLastOnce ==
    /\ Len(out.val) > 0
    /\ out.val[Len(out.val)].Time = W_CursorTime
    /\ W_IsSeriesPoint(out.val[Len(out.val)])
    /\ Cardinality({i \in 1 .. Len(out.val) : out.val[i].Time = W_CursorTime}) = 1

\* C19 as claimed: whenever the series has a value at timeSlots[cursor], the
\* last point returned is that cursor point and it occurs exactly once, for
\* every width, and the result never holds more points than the width
\* allows, also for width <= 0.
C19_CursorLastWithinWidth ==
    W_CursorCase =>
        /\ W_CursorLastOnce
        /\ Len(out.val) <= MaxInt(args.width, 0)

\* C19 as amended: whenever the series has a value at timeSlots[cursor], the
\* last point returned is that cursor point and it occurs exactly once, for
\* every width; for width >= 1 the result holds at most width points, for
\* width <= 0 it is the cursor point alone.
C19_CursorLast ==
    W_CursorCase =>
        /\ W_CursorLastOnce
        /\ args.width >= 1 => Len(out.val) <= args.width
        /\ args.width <= 0 => Len(out.val) = 1

\* C19 witness: width 0, several points in the series, the cursor point
\* returned alone.
C19_Witness ==
    /\ W_CursorCase
    /\ args.width = 0
    /\ Len(args.pts) > 1
    /\ out.val = <<[Temp |-> SlotTemp(args.cursorIdx + 1), Time |-> W_CursorTime]>>

N_Done == out.op = "findTempAtTime"
N_Dist(k) == IF args.pts[k].time >= args.t THEN args.pts[k].time - args.t
             ELSE args.t - args.pts[k].time
N_MinDist(k) == \A m \in 1 .. Len(args.pts) : N_Dist(k) <= N_Dist(m)

\* the scan of the whole series: the value of the best point among the
\* first k, a later point replacing it only when strictly nearer
RECURSIVE N_FullScan(_)
N_FullScan(k) ==
    IF k = 1 THEN [temp |-> args.pts[1].temp, dist |-> N_Dist(1)]
    ELSE LET prev == N_FullScan(k - 1)
         IN  IF N_Dist(k) < prev.dist
             THEN [temp |-> args.pts[k].temp, dist |-> N_Dist(k)]
             ELSE prev

\* C20: for a non-empty series sorted by time and any target time,
\* findTempAtTime returns the value of the earliest point among those at
\* minimal absolute time distance from the target, which is also what the
\* scan of the whole series without the early exit returns.
C20_NearestEarliest ==
    N_Done =>
        /\ \E k \in 1 .. Len(args.pts) :
              /\ N_MinDist(k)
              /\ \A m \in 1 .. k - 1 : ~N_MinDist(m)
              /\ out.val = args.pts[k].temp
        /\ out.val = N_FullScan(Len(args.pts)).temp

\* C20 witness: two points of different value equally near on either side of
\* the target, a farther third point behind them, the earlier value returned.
C20_Witness ==
    /\ N_Done
    /\ Len(args.pts) = 3
    /\ args.pts[1].time < args.t
    /\ args.pts[2].time > args.t
    /\ N_Dist(1) = N_Dist(2)
    /\ N_Dist(3) > N_Dist(2)
    /\ args.pts[1].temp # args.pts[2].temp
    /\ out.val = args.pts[1].temp

(***************************************************************************)
(* Claims about the history viewer's view model (SpecBrowse).              *)
(***************************************************************************)
B_StrictlyIncreasing(seq, at(_)) ==
    \A i \in 1 .. Len(seq) - 1 : at(seq[i]) < at(seq[i + 1])
B_Self(x) == x
B_TimeOf(p) == p.time
B_Selected == dayRows[vm.dayIdx + 1]

\* C21: after loadDay succeeds on any rows, also rows repeating a sensor key
\* and timestamp, timeSlots is strictly increasing and holds exactly the
\* timestamps of the rows, and every series[key] is strictly increasing by
\* timestamp, without a duplicate timestamp.
C21_ViewModelSorted ==
    ~vm.err =>
        /\ B_StrictlyIncreasing(vm.timeSlots, B_Self)
        /\ {vm.timeSlots[i] : i \in 1 .. Len(vm.timeSlots)}
               = {vm.readings[i].Time : i \in 1 .. Len(vm.readings)}
        /\ \A k \in DOMAIN vm.series : B_StrictlyIncreasing(vm.series[k], B_TimeOf)

\* C22: whenever the selected day has changed, the view model holds what the
\* rows of the selected day give and nothing of another day, also when the
\* load of the selected day failed or gave no rows (nothing is loaded then).
C22_RebuiltWholesale ==
    LET rows == IF B_Selected.err THEN <<>> ELSE B_Selected.rows
    IN  /\ vm.readings = rows
        /\ vm.timeSlots = LoadTimeSlots(rows)
        /\ vm.sensors = LoadSensors(rows)
        /\ DOMAIN vm.series = {RowKey(rows[i]) : i \in 1 .. Len(rows)}
        /\ vm.thresholds = LoadThresholds(rows)

\* C30: after the initial load and any keys, whenever timeSlots is not empty
\* the cursor is an index of it: 0 <= cursor < len(timeSlots).
C30_CursorInRange ==
    Len(vm.timeSlots) > 0 => (0 <= vm.cursor /\ vm.cursor < Len(vm.timeSlots))

\* C30 witness: on a day of more than 60 slots the cursor stands 60 slots
\* before the end, where a jump back by 60 from the last slot puts it.
C30_Witness ==
    /\ Len(vm.timeSlots) > 61
    /\ vm.cursor = Len(vm.timeSlots) - 61
    /\ vm.dayIdx = 2

(***************************************************************************)
(* Claims about the day files (SpecDisk).                                  *)
(***************************************************************************)
D_DateOf(w) == FormatDate(zone, w.t)
D_AsStored(w) ==
    [i \in 1 .. Len(w.readings) |->
        [Time |-> w.t, Chip |-> w.readings[i].Chip, Label |-> w.readings[i].Label,
         Temp |-> w.readings[i].Temp, High |-> w.readings[i].High,
         Crit |-> w.readings[i].Crit]]

\* C26: after one Write of a batch at time t, Close, and LoadFile of the
\* file of t's date, LoadFile returns one row per reading, in the written
\* order, with the chip, label, temperature, high and critical value written
\* and the timestamp t; the header is not among the rows.
C26_RoundTrip ==
    (/\ ret.op = "LoadFile"
     /\ Len(writes) = 1
     /\ ~ds.open
     /\ ret.day = D_DateOf(writes[1]))
    => (~ret.val.err /\ ret.val.rows = D_AsStored(writes[1]))

\* the records the writes of the date day should have left, in write order
RECURSIVE D_RowsOf(_, _)
D_RowsOf(day, k) ==
    IF k = 0 THEN <<>>
    ELSE D_RowsOf(day, k - 1)
         \o (IF D_DateOf(writes[k]) = day
             THEN [i \in 1 .. Len(writes[k].readings) |->
                      <<FormatTime(zone, writes[k].t), writes[k].readings[i].Chip,
                        writes[k].readings[i].Label,
                        FormatF1(writes[k].readings[i].Temp),
                        FormatF1(writes[k].readings[i].High),
                        FormatF1(writes[k].readings[i].Crit)>>]
             ELSE <<>>)

\* C27: after any Writes and Closes, with dates changing back and forth,
\* there is a file exactly for the dates written at, and each file is one
\* header row followed by the data rows of the Writes of its date, in write
\* order: no row in another date's file, no second header.
C27_DailyFiles ==
    /\ DOMAIN files = {D_DateOf(writes[k]) : k \in 1 .. Len(writes)}
    /\ \A day \in DOMAIN files :
          files[day] = <<HeaderRow>> \o D_RowsOf(day, Len(writes))

\* C27 witness: three Writes of readings, the second at another date than
\* the first and the third, so that the first file was opened again; the
\* store closed.
C27_Witness ==
    /\ Len(writes) = 3
    /\ \A k \in 1 .. 3 : Len(writes[k].readings) > 0
    /\ D_DateOf(writes[1]) = D_DateOf(writes[3])
    /\ D_DateOf(writes[1]) # D_DateOf(writes[2])
    /\ ~ds.open
    /\ Len(files[D_DateOf(writes[1])]) =
           1 + Len(writes[1].readings) + Len(writes[3].readings)

(***************************************************************************)
(* Claims about the live monitor (SpecMonitor).                            *)
(***************************************************************************)
M_TickStep == ticksDone' = ticksDone + 1

\* C23: a tick processed while paused issues no poll and re-arms the timer;
\* a tick processed while not paused issues exactly one poll and re-arms the
\* timer; toggling pause leaves the timer armed, so the tick chain never
\* stops while the monitor runs and a tick after resuming issues a poll.
C23_PauseKeepsTicking ==
    /\ [][M_TickStep =>
             /\ timers' = timers
             /\ issued' = issued + (IF mon.paused THEN 0 ELSE 1)
             /\ Cardinality(polls') = Cardinality(polls) + (IF mon.paused THEN 0 ELSE 1)]_vars
    /\ [][mon'.paused # mon.paused => (timers' = timers /\ polls' = polls)]_vars
    /\ [](timers >= 1)

\* C23 witness: two ticks processed, one of them while paused (one poll
\* issued besides the initial one), the monitor running again, a timer armed.
C23_Witness ==
    /\ ticksDone = 2
    /\ issued = 2
    /\ ~mon.paused
    /\ host = "running"
    /\ timers >= 1

M_Delivered(p) == p \in polls /\ p \notin polls' /\ p.st = "data"
M_KeyOf(r) == r.Chip \o "/" \o r.Label
M_KeysOf(readings) == {M_KeyOf(readings[i]) : i \in 1 .. Len(readings)}
M_PointsOf(readings, t, key) ==
    LET mine == SelectSeq(readings, LAMBDA r : M_KeyOf(r) = key)
    IN  [i \in 1 .. Len(mine) |-> [Temp |-> mine[i].Temp, Time |-> t]]
M_Held(key) == IF key \in DOMAIN Data THEN Data[key].Points ELSE <<>>

\* C24: processing a sensor-data message with readings r1..rn and time t
\* pushes one point (ri.Temp, t) per reading, in order, into the buffer of
\* the key ri.Chip + "/" + ri.Label and changes no other buffer; no other
\* event changes a buffer; every buffer has capacity 600 and never holds
\* more than 600 points.
C24_OnePointPerReading ==
    /\ [][/\ \A p \in polls :
               M_Delivered(p) =>
                   /\ DOMAIN Data' = DOMAIN Data \cup M_KeysOf(p.readings)
                   /\ \A key \in DOMAIN Data' :
                         Data'[key].Points =
                             Window(M_Held(key) \o M_PointsOf(p.readings, p.time, key), 600)
          /\ (~\E p \in polls : M_Delivered(p)) => Data' = Data]_vars
    /\ [](\A key \in DOMAIN Data :
             Data[key].Max = 600 /\ Len(Data[key].Points) <= 600)

\* C24 witness: the long batch has filled a sensor's buffer up to one point
\* below 600, and a batch reading that sensor twice has then put two points
\* with its time behind them: the buffer holds 600 points, the oldest one
\* (30.1) pushed out.
C24_Witness ==
    /\ "coretemp/Core 0" \in DOMAIN Data
    /\ Len(Data["coretemp/Core 0"].Points) = 600
    /\ Data["coretemp/Core 0"].Points[1].Temp = 302
    /\ Data["coretemp/Core 0"].Points[598].Temp = 899
    /\ Data["coretemp/Core 0"].Points[599].Temp = 460
    /\ Data["coretemp/Core 0"].Points[600].Temp = 470
    /\ Data["coretemp/Core 0"].Points[599].Time = Data["coretemp/Core 0"].Points[600].Time

M_IsPrefix(a, b) == Len(a) <= Len(b) /\ SubSeq(b, 1, Len(a)) = a
M_Added == SubSeq(mon'.order, Len(mon.order) + 1, Len(mon'.order))

\* C25: the sensor order only grows: in every step the previous order is a
\* prefix of the new one; what a sensor-data message appends are the keys of
\* its batch not listed before, each once, in sorted order; no key is ever
\* listed twice.
C25_OrderGrows ==
    /\ [][/\ M_IsPrefix(mon.order, mon'.order)
          /\ \A i \in 1 .. Len(M_Added) - 1 :
                KeyRank(M_Added[i]) < KeyRank(M_Added[i + 1])
          /\ \A p \in polls :
                M_Delivered(p) =>
                    {M_Added[i] : i \in 1 .. Len(M_Added)} =
                        M_KeysOf(p.readings)
                            \ {mon.order[i] : i \in 1 .. Len(mon.order)}
          /\ (~\E p \in polls : M_Delivered(p)) => mon'.order = mon.order]_vars
    /\ [](\A i, j \in 1 .. Len(mon.order) : mon.order[i] = mon.order[j] => i = j)

\* C25 witness: two sensors first seen in one batch, listed there against
\* the sort order, stand sorted behind a sensor listed earlier that sorts
\* between them.
C25_Witness ==
    mon.order = <<"coretemp/Core 0", "amdgpu/edge", "nvme/Composite">>

\* C28: after Init exactly one tick timer is pending at any time, whatever
\* events are processed and however many polls fail.
C28_SingleTimer == timers = 1

\* C29: under any interleaving of ticks and of polls that finish and are
\* delivered, the timestamps of the points held by each ring buffer are
\* non-decreasing from oldest to newest.
C29_TimestampsOrdered ==
    \A key \in DOMAIN Data :
        \A i \in 1 .. Len(Data[key].Points) - 1 :
            Data[key].Points[i].Time <= Data[key].Points[i + 1].Time

====
